---- MODULE Spec2Model ----
(***************************************************************************)
(* Cardiovascular risk API: the prediction pipeline of app/predictor.py.   *)
(*                                                                         *)
(* Probabilities and scores are exact fixed-point numbers: the integer n   *)
(* stands for n / Scale.  Scale is chosen so that every product the code   *)
(* forms (the 0.12 * (1 + 0.5 * risk_score) stress term, the blend weights *)
(* in twentieths, the multipliers 0.8, 1.15 and 1.10) is an integer, so no *)
(* rounding happens anywhere in the model.  exercise_hours is in tenths of *)
(* an hour (0.5 h = 5).                                                    *)
(***************************************************************************)
EXTENDS Integers, Sequences, FiniteSets, TLC

Scale == 2 * (10 ^ 7)

\* n hundredths (0.01 * n) as a fixed-point number.
Pct(n) == n * (Scale \div 100)

Max(a, b) == IF a >= b THEN a ELSE b
Min(a, b) == IF a <= b THEN a ELSE b

(***************************************************************************)
(* Inputs.  A PatientData record that passed validation (models.py).  The  *)
(* code only compares age, exercise_hours and stress_level against fixed   *)
(* thresholds, so the input sets hold one value for every interval between *)
(* two consecutive thresholds, and both ends of the valid ranges.          *)
(***************************************************************************)
Genders == {"Male", "Female"}
SmokingValues == {"Never", "Former", "Current"}
AlcoholValues == {"None", "Light", "Moderate", "Heavy"}
YesNo == {"Yes", "No"}

\* The fields of PatientData.
Fields ==
    { "age", "gender", "smoking", "alcohol_intake", "exercise_hours",
      "diabetes", "family_history", "obesity", "stress_level" }

\* age: ge=18, le=100; thresholds 25, 30, 35, 40, 45, 50, 55, 60, 65, 70.
Ages == {18, 25, 26, 30, 31, 35, 36, 40, 41, 45, 46, 50, 55, 60, 65, 70, 100}

\* exercise_hours: ge=0, le=24; thresholds 0.5, 1, 1.5, 2, 2.5, 3, 5, 6, 7.
ExerciseHours == {0, 5, 10, 15, 20, 25, 30, 50, 60, 70, 240}

\* stress_level: ge=1, le=10; thresholds 2, 4, 5, 6, 8, 9.
StressLevels == {1, 2, 4, 5, 6, 7, 8, 9, 10}

PatientData ==
    [age : Ages, gender : Genders, smoking : SmokingValues,
     alcohol_intake : AlcoholValues, exercise_hours : ExerciseHours,
     diabetes : YesNo, family_history : YesNo, obesity : YesNo,
     stress_level : StressLevels]

\* The classifier's predict_proba output, a float in [0, 1]: both ends and
\* BaseSteps - 1 evenly spaced values between them, in whole hundredths.
BaseSteps == 2
BaseProbabilities ==
    {0, Scale} \cup { Pct((100 * k) \div BaseSteps) : k \in 1..(BaseSteps - 1) }

\* The standard deviation np.std gives for the per-tree probabilities; the
\* values lie in [0, 1], so it lies in [0, 0.5].
StdDevs == {0, Pct(5), Pct(50)}

\* Arguments of get_risk_level: every whole hundredth of [0, 1] and the
\* nearest fixed-point neighbours of the two thresholds.
TierProbabilities ==
    { Pct(k) : k \in 0..100 }
        \cup {Pct(35) - 1, Pct(35) + 1, Pct(60) - 1, Pct(60) + 1}

\* The requests the whole pipeline is run on: every age band, gender, smoking,
\* alcohol and yes/no value, with the lowest, a middle and the highest band
\* of exercise_hours and stress_level.
PipelinePatients ==
    [age : Ages, gender : Genders, smoking : SmokingValues,
     alcohol_intake : AlcoholValues, exercise_hours : {0, 30, 70},
     diabetes : YesNo, family_history : YesNo, obesity : YesNo,
     stress_level : {1, 6, 10}]

\* The base probabilities the blend is computed for: both ends, the values
\* next to the limits 0.02 and 0.98 of the logic probability, and values in
\* between.
BlendBases == {0, Pct(1), Pct(3), Pct(30), Pct(50), Pct(70), Pct(97), Pct(99), Scale}

\* The records the blend is computed for: ages with and without an age
\* score, every gender, smoking and yes/no value, alcohol none, moderate and
\* heavy, exercise and stress levels with the smallest and the largest scores.
BlendPatients ==
    [age : {18, 31, 45, 60, 100}, gender : Genders, smoking : SmokingValues,
     alcohol_intake : {"None", "Moderate", "Heavy"},
     exercise_hours : {0, 10, 30, 70},
     diabetes : YesNo, family_history : YesNo, obesity : YesNo,
     stress_level : {1, 5, 7, 10}]

\* The records _apply_medical_logic is called on with two base
\* probabilities: records with and without every special case, in the middle
\* and the upper band of the weights.
MonotonePatients ==
    [age : {18, 31, 60}, gender : Genders, smoking : SmokingValues,
     alcohol_intake : {"Moderate", "Heavy"}, exercise_hours : {0, 10, 70},
     diabetes : YesNo, family_history : YesNo, obesity : YesNo,
     stress_level : {4, 8}]

\* The records of the repository's own tests, on which the rule groups are
\* evaluated one at a time: the four profiles of tests/test_api.py and two of
\* test_advanced_logic.py (exercise_hours in tenths of an hour).
OrderPatients ==
    { [age |-> 25, gender |-> "Female", smoking |-> "Never",
       alcohol_intake |-> "None", exercise_hours |-> 80, diabetes |-> "No",
       family_history |-> "No", obesity |-> "No", stress_level |-> 2],
      [age |-> 45, gender |-> "Male", smoking |-> "Former",
       alcohol_intake |-> "Moderate", exercise_hours |-> 30, diabetes |-> "No",
       family_history |-> "Yes", obesity |-> "No", stress_level |-> 6],
      [age |-> 65, gender |-> "Male", smoking |-> "Current",
       alcohol_intake |-> "Heavy", exercise_hours |-> 5, diabetes |-> "Yes",
       family_history |-> "Yes", obesity |-> "Yes", stress_level |-> 9],
      [age |-> 50, gender |-> "Female", smoking |-> "Former",
       alcohol_intake |-> "Light", exercise_hours |-> 45, diabetes |-> "No",
       family_history |-> "Yes", obesity |-> "No", stress_level |-> 7],
      [age |-> 45, gender |-> "Female", smoking |-> "Current",
       alcohol_intake |-> "Heavy", exercise_hours |-> 0, diabetes |-> "Yes",
       family_history |-> "Yes", obesity |-> "Yes", stress_level |-> 8],
      [age |-> 35, gender |-> "Male", smoking |-> "Never",
       alcohol_intake |-> "None", exercise_hours |-> 80, diabetes |-> "No",
       family_history |-> "No", obesity |-> "No", stress_level |-> 10] }

\* The records get_risk_factors and get_recommendations are run on: an age
\* below and one above every age the factor texts depend on being 50 or 45,
\* every categorical value, every exercise band of get_risk_factors (limits
\* 0.5, 1, 1.5, 2.5) and every stress level from 6 on and one below.
RecPatients ==
    [age : {30, 60}, gender : Genders, smoking : SmokingValues,
     alcohol_intake : AlcoholValues, exercise_hours : {0, 5, 10, 15, 20, 25},
     diabetes : YesNo, family_history : YesNo, obesity : YesNo,
     stress_level : {1, 6, 7, 8, 9, 10}]

\* The probability argument of get_recommendations: both ends of [0, 1] and
\* each of its thresholds 0.2, 0.35, 0.6 with its nearest lower neighbour.
RecProbabilities ==
    {0, Pct(20) - 1, Pct(20), Pct(35) - 1, Pct(35), Pct(60) - 1, Pct(60), Scale}

\* The records get_risk_factors is run on for its age and exercise bands:
\* the ages on both sides of every age limit of the texts (35, 45, 50, 55,
\* 60, 65), exercise_hours on both sides of 0.5, 1.5 and 2.5, and both ends
\* of the two ranges.
FactorPatients ==
    [age : {18, 34, 35, 44, 45, 49, 50, 54, 55, 59, 60, 64, 65, 100},
     gender : Genders, smoking : SmokingValues, alcohol_intake : {"None", "Heavy"},
     exercise_hours : {0, 4, 5, 14, 15, 24, 25, 240},
     diabetes : YesNo, family_history : YesNo, obesity : YesNo,
     stress_level : {5, 8}]

\* The records preprocess_data is called on directly, without the validators
\* of models.py: every categorical field with its valid values and one value
\* the validators reject.
Unrecognized == "Other"

EncodePatients ==
    [age : {18, 60}, gender : Genders \cup {Unrecognized},
     smoking : SmokingValues \cup {Unrecognized},
     alcohol_intake : AlcoholValues \cup {Unrecognized},
     exercise_hours : {25}, diabetes : YesNo \cup {Unrecognized},
     family_history : YesNo \cup {Unrecognized},
     obesity : YesNo \cup {Unrecognized}, stress_level : {5}]

\* The records the pipeline is run on twice: an age on either side of 50,
\* every gender, smoking and yes/no value, alcohol none and heavy, exercise
\* below 0.5, between 1.5 and 2.5 and above, stress low and very high.
TwoRunPatients ==
    [age : {30, 60}, gender : Genders, smoking : SmokingValues,
     alcohol_intake : {"None", "Heavy"}, exercise_hours : {0, 20, 30},
     diabetes : YesNo, family_history : YesNo, obesity : YesNo,
     stress_level : {1, 8}]

\* The /predict requests the served application is sent: the moderate-risk
\* and the high-risk profile of tests/test_api.py, and its under-age body.
MaxRequests == 3
Slots == 1..MaxRequests

ModerateProfile ==
    [age |-> 45, gender |-> "Male", smoking |-> "Former",
     alcohol_intake |-> "Moderate", exercise_hours |-> 30, diabetes |-> "No",
     family_history |-> "Yes", obesity |-> "No", stress_level |-> 6]

\* Records on which the stress and exercise rule groups are evaluated one at
\* a time: every stress_level of the valid range 1..10, and exercise_hours
\* (tenths of an hour) at and next to the limits 0.5, 1 and 1.5 of the
\* exercise chain, at 0 and at the upper limit 24.
StressPatients ==
    { [ModerateProfile EXCEPT !.stress_level = s, !.exercise_hours = h] :
          s \in 1..10, h \in {0, 4, 5, 9, 10, 15, 240} }

HighProfile ==
    [age |-> 65, gender |-> "Male", smoking |-> "Current",
     alcohol_intake |-> "Heavy", exercise_hours |-> 5, diabetes |-> "Yes",
     family_history |-> "Yes", obesity |-> "Yes", stress_level |-> 9]

UnderAgeBody ==
    [age |-> 15, gender |-> "Male", smoking |-> "Never",
     alcohol_intake |-> "None", exercise_hours |-> 50, diabetes |-> "No",
     family_history |-> "No", obesity |-> "No", stress_level |-> 3]

ServerBodies == {ModerateProfile, HighProfile, UnderAgeBody}

\* The JSON bodies /predict is sent when validation is examined: for every
\* field valid values and values the model rejects, numbers on both sides of
\* both ends of their range; and a body that lacks a field.
RawBodies ==
    [age : {17, 18, 100, 101}, gender : {"Male", "Female", "Other"},
     smoking : {"Never", "Current", "Sometimes"},
     alcohol_intake : {"None", "Heavy", "Social"},
     exercise_hours : {-1, 0, 240, 241}, diabetes : {"Yes", "No", "Maybe"},
     family_history : {"No", "Unknown"}, obesity : {"Yes", "yes"},
     stress_level : {0, 1, 10, 11}]
        \cup { [f \in Fields \ {"age"} |-> ModerateProfile[f]] }

\* Placeholders for the variables a specification does not use.
NoPatient == [age |-> 0]
NoInterval == <<0, 0>>
NoScores == [risk |-> 0, prot |-> 0]

VARIABLES
    pc,                    \* where the call or request is
    patient_data,          \* the validated PatientData of the request
    model_probability,     \* model.predict_proba(processed_data)[0, 1]
    has_estimators,        \* hasattr(self.model, 'estimators_')
    std_dev,               \* np.std(tree_predictions)
    adjusted_probability,  \* result of _apply_medical_logic
    final_prediction,      \* predict's binary label
    confidence_interval,   \* predict's [lo, hi]
    probability,           \* arguments of two get_risk_level calls
    risk_level,            \* their results
    evaluated,             \* rule groups already added to the scores
    scores,                \* running risk_score and protective_score
    stress_saw,            \* risk_score as the stress rule read it, -1 before
    risk_factors,          \* the dict get_risk_factors returns, in insertion order
    recommendations,       \* the list get_recommendations has built so far
    block,                 \* how many of its blocks get_recommendations has passed
    predictor,             \* the attributes of the global predictor object
    processed_data,        \* what preprocess_data returned or raised
    requests,              \* the /predict requests: body, handler locals, response
    health                 \* the last response of /health

vars ==
    <<pc, patient_data, model_probability, has_estimators, std_dev,
      adjusted_probability, final_prediction, confidence_interval,
      probability, risk_level, evaluated, scores, stress_saw,
      risk_factors, recommendations, block,
      predictor, processed_data, requests, health>>

inputVars == <<patient_data, model_probability, has_estimators>>
predictVars == <<std_dev, adjusted_probability, final_prediction, confidence_interval>>
tierVars == <<probability, risk_level>>
orderVars == <<evaluated, scores, stress_saw>>
textVars == <<risk_factors, recommendations, block>>
serverVars == <<predictor, processed_data, requests, health>>

(***************************************************************************)
(* _apply_medical_logic: the rule groups of the score accumulation.  Each  *)
(* returns the pair it adds to (risk_score, protective_score).             *)
(***************************************************************************)
Delta(r, p) == [risk |-> r, prot |-> p]

AgeRule(pd) ==
    IF pd.gender = "Male"
    THEN IF pd.age >= 65 THEN Delta(Pct(28), 0)
         ELSE IF pd.age >= 55 THEN Delta(Pct(18), 0)
         ELSE IF pd.age >= 45 THEN Delta(Pct(12), 0)
         ELSE IF pd.age >= 35 THEN Delta(Pct(5), 0)
         ELSE IF pd.age <= 25 THEN Delta(0, Pct(18))
         ELSE Delta(0, 0)
    ELSE IF pd.age >= 70 THEN Delta(Pct(25), 0)
         ELSE IF pd.age >= 60 THEN Delta(Pct(15), 0)
         ELSE IF pd.age >= 50 THEN Delta(Pct(8), 0)
         ELSE IF pd.age >= 40 THEN Delta(Pct(3), 0)
         ELSE IF pd.age <= 30 THEN Delta(0, Pct(20))
         ELSE Delta(0, 0)

SmokingRule(pd) ==
    IF pd.smoking = "Current"
    THEN IF pd.age >= 50 THEN Delta(Pct(22) + Pct(8), 0)
         ELSE IF pd.age >= 35 THEN Delta(Pct(22) + Pct(4), 0)
         ELSE Delta(Pct(22), 0)
    ELSE IF pd.smoking = "Former"
    THEN IF pd.age >= 50 THEN Delta(Pct(8), 0) ELSE Delta(Pct(4), 0)
    ELSE Delta(0, 0)

DiabetesRule(pd) ==
    IF pd.diabetes = "Yes"
    THEN IF pd.age >= 50 THEN Delta(Pct(20) + Pct(5), 0) ELSE Delta(Pct(20), 0)
    ELSE Delta(0, 0)

ObesityRule(pd) ==
    IF pd.obesity = "Yes"
    THEN IF pd.age <= 40 THEN Delta(Pct(15), 0) ELSE Delta(Pct(12), 0)
    ELSE Delta(0, 0)

FamilyHistoryRule(pd) ==
    IF pd.family_history = "Yes"
    THEN IF pd.age <= 45 THEN Delta(Pct(12), 0) ELSE Delta(Pct(8), 0)
    ELSE Delta(0, 0)

HeavyAlcoholRule(pd) ==
    IF pd.alcohol_intake = "Heavy"
    THEN IF pd.age >= 50 THEN Delta(Pct(12), 0) ELSE Delta(Pct(8), 0)
    ELSE Delta(0, 0)

\* Mutant of StressRule: the synergy multiplier applied from stress_level 6.
MutStressRule(pd, risk_score) ==
    IF pd.stress_level >= 6
    THEN IF risk_score >= Scale
         THEN Delta(Pct(18), 0)
         ELSE Delta(Pct(12) + (risk_score * 3) \div 50, 0)
    ELSE Delta(0, 0)

\* base_stress_risk * min(stress_multiplier, 1.5), with
\* stress_multiplier = 1 + risk_score * 0.5 and risk_score the total so far:
\* 0.12 * (1 + r/2) = 0.12 + 0.06 * r, and 0.12 * 1.5 = 0.18 once r >= 1.
StressRule(pd, risk_score) ==
    IF pd.stress_level >= 8
    THEN IF risk_score >= Scale
         THEN Delta(Pct(18), 0)
         ELSE Delta(Pct(12) + (risk_score * 3) \div 50, 0)
    ELSE IF pd.stress_level >= 6 THEN Delta(Pct(6), 0)
    ELSE Delta(0, 0)

ExerciseRule(pd) ==
    IF pd.exercise_hours >= 70 THEN Delta(0, Pct(20))
    ELSE IF pd.exercise_hours >= 50 THEN Delta(0, Pct(16))
    ELSE IF pd.exercise_hours >= 30 THEN Delta(0, Pct(12))
    ELSE IF pd.exercise_hours >= 15 THEN Delta(0, Pct(7))
    ELSE IF pd.exercise_hours >= 10 THEN Delta(0, Pct(3))
    ELSE IF pd.exercise_hours < 5 THEN Delta(Pct(12), 0)
    ELSE IF pd.exercise_hours < 10 THEN Delta(Pct(8), 0)
    ELSE Delta(0, 0)

NeverSmokedRule(pd) ==
    IF pd.smoking = "Never"
    THEN IF pd.age >= 50 THEN Delta(0, Pct(15)) ELSE Delta(0, Pct(10))
    ELSE Delta(0, 0)

AlcoholProtectiveRule(pd) ==
    IF pd.alcohol_intake = "None" THEN Delta(0, Pct(6))
    ELSE IF pd.alcohol_intake = "Light" THEN Delta(0, Pct(8))
    ELSE IF pd.alcohol_intake = "Moderate"
    THEN IF pd.age >= 40 THEN Delta(0, Pct(4)) ELSE Delta(0, Pct(1))
    ELSE Delta(0, 0)

\* Mutant of StressManagementRule: the last band ends at stress_level 5.
MutStressManagementRule(pd) ==
    IF pd.stress_level <= 2 THEN Delta(0, Pct(12))
    ELSE IF pd.stress_level <= 4 THEN Delta(0, Pct(8))
    ELSE IF pd.stress_level <= 5 THEN Delta(0, Pct(4))
    ELSE Delta(0, 0)

StressManagementRule(pd) ==
    IF pd.stress_level <= 2 THEN Delta(0, Pct(12))
    ELSE IF pd.stress_level <= 4 THEN Delta(0, Pct(8))
    ELSE IF pd.stress_level <= 6 THEN Delta(0, Pct(4))
    ELSE Delta(0, 0)

\* medical_conditions_absent and the clean-profile bonus.
ConditionsAbsentRule(pd) ==
    LET absent == (IF pd.diabetes = "No" THEN 1 ELSE 0)
                  + (IF pd.obesity = "No" THEN 1 ELSE 0)
    IN  Delta(0, Pct(6) * absent
                 + (IF absent = 2 /\ pd.smoking = "Never" THEN Pct(5) ELSE 0))

\* The rule groups, in the order _apply_medical_logic evaluates them.
RuleOrder ==
    << "age", "smoking", "diabetes", "obesity", "family_history",
       "heavy_alcohol", "stress", "exercise", "never_smoked",
       "alcohol", "stress_management", "conditions_absent" >>

RuleGroups == { RuleOrder[i] : i \in 1..Len(RuleOrder) }

\* What one rule group adds, given the risk_score accumulated before it.
RuleDelta(g, pd, risk_score) ==
    CASE g = "age" -> AgeRule(pd)
      [] g = "smoking" -> SmokingRule(pd)
      [] g = "diabetes" -> DiabetesRule(pd)
      [] g = "obesity" -> ObesityRule(pd)
      [] g = "family_history" -> FamilyHistoryRule(pd)
      [] g = "heavy_alcohol" -> HeavyAlcoholRule(pd)
      [] g = "stress" -> StressRule(pd, risk_score)
      [] g = "exercise" -> ExerciseRule(pd)
      [] g = "never_smoked" -> NeverSmokedRule(pd)
      [] g = "alcohol" -> AlcoholProtectiveRule(pd)
      [] g = "stress_management" -> StressManagementRule(pd)
      [] g = "conditions_absent" -> ConditionsAbsentRule(pd)

\* risk_score += ..., protective_score += ... for one rule group.
ApplyRule(g, pd, sc) ==
    LET d == RuleDelta(g, pd, sc.risk)
    IN  [risk |-> sc.risk + d.risk, prot |-> sc.prot + d.prot]

RECURSIVE Accumulate(_, _, _, _)
Accumulate(order, i, pd, sc) ==
    IF i > Len(order) THEN sc
    ELSE Accumulate(order, i + 1, pd, ApplyRule(order[i], pd, sc))

\* risk_score and protective_score as the code leaves them before the blend.
Scores(pd) == Accumulate(RuleOrder, 1, pd, [risk |-> 0, prot |-> 0])

\* model_weight and logic_weight, in twentieths.
\* Mutant of BlendWeights: the middle band with the weights of the upper one.
MutBlendWeights(sc) ==
    LET total_factors == sc.risk + sc.prot
    IN  IF total_factors > Pct(20) THEN [model |-> 9, logic |-> 11]
        ELSE [model |-> 13, logic |-> 7]

\* model_weight and logic_weight, in twentieths.
BlendWeights(sc) ==
    LET total_factors == sc.risk + sc.prot
    IN  IF total_factors > Pct(40) THEN [model |-> 9, logic |-> 11]
        ELSE IF total_factors > Pct(20) THEN [model |-> 11, logic |-> 9]
        ELSE [model |-> 13, logic |-> 7]

\* Mutant of LogicProbability: a sum above 0.98 replaced by the lower limit.
MutLogicProbability(sc, base) ==
    IF base + (sc.risk - sc.prot) > Pct(98) THEN Pct(2)
    ELSE Max(Pct(2), base + (sc.risk - sc.prot))

\* logic_probability = max(0.02, min(0.98, base_probability + net_adjustment))
LogicProbability(sc, base) ==
    Max(Pct(2), Min(Pct(98), base + (sc.risk - sc.prot)))

\* adjusted_prob = model_weight * base_probability + logic_weight * logic_probability
BlendScores(sc, base) ==
    LET w == BlendWeights(sc)
    IN  (w.model * base + w.logic * LogicProbability(sc, base)) \div 20

\* The blend for the scores the rules give the record.
Blend(pd, base) == BlendScores(Scores(pd), base)

(***************************************************************************)
(* The special cases, in the order the code applies them.                  *)
(***************************************************************************)
\* Mutant of YoungHealthy: the cap written as 0.20.
MutYoungHealthy(pd, p) ==
    IF /\ pd.age <= 25 /\ pd.smoking = "Never" /\ pd.diabetes = "No"
       /\ pd.obesity = "No" /\ pd.exercise_hours >= 30 /\ pd.stress_level <= 5
    THEN Min(p, Pct(20)) ELSE p

\* 1. very young and completely healthy: min(adjusted_prob, 0.12)
YoungHealthy(pd, p) ==
    IF /\ pd.age <= 25 /\ pd.smoking = "Never" /\ pd.diabetes = "No"
       /\ pd.obesity = "No" /\ pd.exercise_hours >= 30 /\ pd.stress_level <= 5
    THEN Min(p, Pct(12)) ELSE p

\* Mutant of HighRiskProfile: the age threshold written as 65.
MutHighRiskProfile(pd, p) ==
    IF pd.age >= 65 /\ pd.smoking = "Current" /\ pd.diabetes = "Yes"
    THEN Max(p, Pct(65)) ELSE p

\* 2. indisputable high risk: max(adjusted_prob, 0.65)
HighRiskProfile(pd, p) ==
    IF pd.age >= 60 /\ pd.smoking = "Current" /\ pd.diabetes = "Yes"
    THEN Max(p, Pct(65)) ELSE p

\* 3. young woman with protective factors: min(adjusted_prob, 0.08)
YoungWoman(pd, p) ==
    IF /\ pd.gender = "Female" /\ pd.age <= 35 /\ pd.smoking = "Never"
       /\ pd.exercise_hours >= 20
    THEN Min(p, Pct(8)) ELSE p

\* Mutant of YoungManAtRisk: diabetes and obesity both required.
MutYoungManAtRisk(pd, p) ==
    IF /\ pd.gender = "Male" /\ pd.age <= 35 /\ pd.smoking = "Current"
       /\ (pd.diabetes = "Yes" /\ pd.obesity = "Yes")
    THEN Max(p, Pct(25)) ELSE p

\* 4. young man with several risk factors: max(adjusted_prob, 0.25)
YoungManAtRisk(pd, p) ==
    IF /\ pd.gender = "Male" /\ pd.age <= 35 /\ pd.smoking = "Current"
       /\ (pd.diabetes = "Yes" \/ pd.obesity = "Yes")
    THEN Max(p, Pct(25)) ELSE p

\* Mutant of MetabolicSyndrome: the exercise threshold written as 0.5.
MutMetabolicSyndrome(pd, p) ==
    IF pd.obesity = "Yes" /\ pd.diabetes = "Yes" /\ pd.exercise_hours < 5
    THEN Max(p, Pct(55)) ELSE p

\* 5. metabolic syndrome: max(adjusted_prob, 0.55)
MetabolicSyndrome(pd, p) ==
    IF pd.obesity = "Yes" /\ pd.diabetes = "Yes" /\ pd.exercise_hours < 10
    THEN Max(p, Pct(55)) ELSE p

\* 6. extreme exercise profile: adjusted_prob * 0.8
ExtremeExercise(pd, p) ==
    IF pd.exercise_hours >= 60 /\ pd.smoking = "Never" /\ pd.stress_level <= 4
    THEN (p * 4) \div 5 ELSE p

\* Mutant of MajorRiskFactors: heavy alcohol left out of the count.
MutMajorRiskFactors(pd) ==
    (IF pd.smoking = "Current" THEN 1 ELSE 0)
    + (IF pd.diabetes = "Yes" THEN 1 ELSE 0)
    + (IF pd.obesity = "Yes" THEN 1 ELSE 0)
    + (IF pd.family_history = "Yes" THEN 1 ELSE 0)
    + (IF pd.exercise_hours < 10 THEN 1 ELSE 0)
    + (IF pd.stress_level >= 8 THEN 1 ELSE 0)

\* major_risk_factors = sum([...])
MajorRiskFactors(pd) ==
    (IF pd.smoking = "Current" THEN 1 ELSE 0)
    + (IF pd.diabetes = "Yes" THEN 1 ELSE 0)
    + (IF pd.obesity = "Yes" THEN 1 ELSE 0)
    + (IF pd.family_history = "Yes" THEN 1 ELSE 0)
    + (IF pd.exercise_hours < 10 THEN 1 ELSE 0)
    + (IF pd.stress_level >= 8 THEN 1 ELSE 0)
    + (IF pd.alcohol_intake = "Heavy" THEN 1 ELSE 0)

\* 7. floors by number of major risk factors and age
MultipleFactors(pd, p) ==
    LET n == MajorRiskFactors(pd)
    IN  IF n >= 4
        THEN IF pd.age >= 50 THEN Max(p, Pct(60))
             ELSE IF pd.age >= 30 THEN Max(p, Pct(45))
             ELSE Max(p, Pct(35))
        ELSE IF n >= 3
        THEN IF pd.age >= 45 THEN Max(p, Pct(50))
             ELSE IF pd.age >= 25 THEN Max(p, Pct(40))
             ELSE p
        ELSE IF n >= 2
        THEN IF pd.age >= 55 THEN Max(p, Pct(40)) ELSE p
        ELSE p

\* 8. smoking and diabetes: adjusted_prob * 1.15
SmokingDiabetesSynergy(pd, p) ==
    IF pd.smoking = "Current" /\ pd.diabetes = "Yes"
    THEN (p * 23) \div 20 ELSE p

\* 9. stress and sedentarism: adjusted_prob * 1.10
StressSedentarySynergy(pd, p) ==
    IF pd.stress_level >= 8 /\ pd.exercise_hours < 10
    THEN (p * 11) \div 10 ELSE p

\* Mutant of FinalClamp: the clamp written as [0, 1].
MutFinalClamp(p) == Max(0, Min(Scale, p))

\* return max(0.01, min(0.99, adjusted_prob))
FinalClamp(p) == Max(Pct(1), Min(Pct(99), p))

\* adjusted_prob after the special cases, before the final clamp.
Overrides(pd, p) ==
    StressSedentarySynergy(pd,
      SmokingDiabetesSynergy(pd,
        MultipleFactors(pd,
          ExtremeExercise(pd,
            MetabolicSyndrome(pd,
              YoungManAtRisk(pd,
                YoungWoman(pd,
                  HighRiskProfile(pd,
                    YoungHealthy(pd, p)))))))))

ApplyMedicalLogic(pd, base) == FinalClamp(Overrides(pd, Blend(pd, base)))

\* Mutant of GetRiskLevel: strict comparisons.
MutGetRiskLevel(p) ==
    IF p > Pct(60) THEN "Alto Riesgo"
    ELSE IF p > Pct(35) THEN "Riesgo Moderado"
    ELSE "Bajo Riesgo"

\* get_risk_level
GetRiskLevel(p) ==
    IF p >= Pct(60) THEN "Alto Riesgo"
    ELSE IF p >= Pct(35) THEN "Riesgo Moderado"
    ELSE "Bajo Riesgo"

\* 1.96 * std_dev
Band(sd) == (sd * 49) \div 25

\* Mutant of ConfidenceInterval: the ensemble branch without max(0, .) and
\* min(1, .).
MutConfidenceInterval(p, ensemble, sd) ==
    IF ensemble
    THEN << p - Band(sd), p + Band(sd) >>
    ELSE << Max(0, p - Pct(10)), Min(Scale, p + Pct(10)) >>

\* confidence_interval of predict: the ensemble branch or the fixed 0.1 band.
ConfidenceInterval(p, ensemble, sd) ==
    IF ensemble
    THEN << Max(0, p - Band(sd)), Min(Scale, p + Band(sd)) >>
    ELSE << Max(0, p - Pct(10)), Min(Scale, p + Pct(10)) >>

\* Mutant of FinalPrediction: the label follows the High tier.
MutFinalPrediction(p) == IF p >= Pct(60) THEN 1 ELSE 0

\* final_prediction = 1 if adjusted_probability >= 0.5 else 0
FinalPrediction(p) == IF p >= Pct(50) THEN 1 ELSE 0

(***************************************************************************)
(* The artifacts joblib.load gives the predictor.  encoding_info holds the *)
(* label codes of the categorical columns, the column order the classifier *)
(* was trained on, and the columns the scaler was fitted on.               *)
(***************************************************************************)
Range(seq) == { seq[i] : i \in 1..Len(seq) }

YesNoCodes == ("No" :> 0) @@ ("Yes" :> 1)

Encodings ==
    ("Gender" :> (("Female" :> 0) @@ ("Male" :> 1)))
        @@ ("Smoking" :> (("Current" :> 0) @@ ("Former" :> 1) @@ ("Never" :> 2)))
        @@ ("Diabetes" :> YesNoCodes)
        @@ ("Family History" :> YesNoCodes)
        @@ ("Obesity" :> YesNoCodes)

Features ==
    << "Age", "Gender", "Smoking", "Alcohol Intake", "Exercise Hours",
       "Diabetes", "Family History", "Obesity", "Stress Level" >>

ScalerFeatures == << "Age", "Exercise Hours", "Stress Level" >>

\* The catalog of a training run on the nine request fields.
TrainedCatalog ==
    [encodings |-> Encodings, features |-> Features,
     scaler_features |-> ScalerFeatures]

\* The same columns in another order.
ReorderedCatalog ==
    [encodings |-> Encodings,
     features |-> << "Stress Level", "Obesity", "Family History", "Diabetes",
                     "Exercise Hours", "Alcohol Intake", "Smoking", "Gender",
                     "Age" >>,
     scaler_features |-> << "Stress Level", "Age", "Exercise Hours" >>]

\* A catalog of a training run whose data had no former smokers.
NoFormerCatalog ==
    [encodings |-> [Encodings EXCEPT !["Smoking"] = ("Current" :> 0) @@ ("Never" :> 1)],
     features |-> Features, scaler_features |-> ScalerFeatures]

\* A catalog with a column the request does not carry.
ExtraColumnCatalog ==
    [encodings |-> Encodings, features |-> Features \o << "BMI" >>,
     scaler_features |-> ScalerFeatures]

\* A catalog of a training run without the obesity column.
ShortCatalog ==
    [encodings |-> Encodings,
     features |-> << "Age", "Gender", "Smoking", "Alcohol Intake",
                     "Exercise Hours", "Diabetes", "Family History",
                     "Stress Level" >>,
     scaler_features |-> ScalerFeatures]

Catalogs ==
    {TrainedCatalog, ReorderedCatalog, NoFormerCatalog, ExtraColumnCatalog,
     ShortCatalog}

\* A fitted StandardScaler: one mean and one scale per column it was fitted
\* on.
Scalers == { [mean |-> <<50, 30, 5>>, scale |-> <<15, 20, 3>>] }

\* model_dump(): the fields of the record, as a dict of its own.
ModelDump(pd) == [f \in Fields |-> pd[f]]

\* The catalog lookups of preprocess_data in statement order: encodings key
\* and record field.
Lookups ==
    << <<"Gender", "gender">>, <<"Smoking", "smoking">>,
       <<"Diabetes", "diabetes">>, <<"Family History", "family_history">>,
       <<"Obesity", "obesity">> >>

AlcoholMapping ==
    ("None" :> 0) @@ ("Light" :> 1) @@ ("Moderate" :> 2) @@ ("Heavy" :> 3)

\* alcohol_mapping.get(patient_data.alcohol_intake, 2)
AlcoholCode(value) ==
    IF value \in DOMAIN AlcoholMapping THEN AlcoholMapping[value] ELSE 2

FeatureMapping ==
    ("Age" :> "age") @@ ("Gender" :> "gender") @@ ("Smoking" :> "smoking")
        @@ ("Alcohol Intake" :> "alcohol_intake")
        @@ ("Exercise Hours" :> "exercise_hours")
        @@ ("Diabetes" :> "diabetes")
        @@ ("Family History" :> "family_history")
        @@ ("Obesity" :> "obesity") @@ ("Stress Level" :> "stress_level")

\* feature.lower().replace(' ', '_') for the column names outside the table.
LowerSnake(feature) == IF feature = "BMI" THEN "bmi" ELSE feature

\* feature_mapping.get(feature, feature.lower().replace(' ', '_'))
FeatureKey(feature) ==
    IF feature \in DOMAIN FeatureMapping THEN FeatureMapping[feature]
    ELSE LowerSnake(feature)

Raised(exception, arg) == [raised |-> <<exception, arg>>]

IsRaised(result) == "raised" \in DOMAIN result

\* The first lookup that is not in the catalog, 0 when all are.
FailingLookup(pd, encodings) ==
    LET bad == { i \in 1..Len(Lookups) :
                   \/ Lookups[i][1] \notin DOMAIN encodings
                   \/ pd[Lookups[i][2]] \notin DOMAIN encodings[Lookups[i][1]] }
    IN IF bad = {} THEN 0 ELSE CHOOSE i \in bad : \A j \in bad : i <= j

\* data_dict after the categorical fields were replaced by their codes.
Encoded(pd, encodings) ==
    [f \in DOMAIN ModelDump(pd) |->
        IF f = "alcohol_intake" THEN AlcoholCode(pd[f])
        ELSE IF \E i \in 1..Len(Lookups) : Lookups[i][2] = f
        THEN LET i == CHOOSE i \in 1..Len(Lookups) : Lookups[i][2] = f
             IN encodings[Lookups[i][1]][pd[f]]
        ELSE pd[f]]

\* feature_order.index(feat)
Index(seq, x) == CHOOSE i \in 1..Len(seq) : seq[i] = x /\ \A j \in 1..(i - 1) : seq[j] # x

\* Mutant of Transform: every column scaled with the statistics of the first.
MutTransform(scaler, row) ==
    [j \in 1..Len(row) |-> ((row[j] - scaler.mean[1]) * 100) \div scaler.scale[1]]

\* StandardScaler.transform on one row: (x - mean) / scale per column, in
\* hundredths.
Transform(scaler, row) ==
    [j \in 1..Len(row) |-> ((row[j] - scaler.mean[j]) * 100) \div scaler.scale[j]]

\* preprocess_data: the scaled row, or the exception the first failing
\* statement raises.
PreprocessData(pd, encoding_info, scaler) ==
    LET encodings == encoding_info.encodings
        failing == FailingLookup(pd, encodings)
        feature_order == encoding_info.features
        scaler_features == encoding_info.scaler_features
        unknown == { i \in 1..Len(feature_order) :
                       FeatureKey(feature_order[i]) \notin Fields }
        absent == { k \in 1..Len(scaler_features) :
                      scaler_features[k] \notin Range(feature_order) }
    IN  IF failing # 0
        THEN Raised("KeyError",
                    IF Lookups[failing][1] \notin DOMAIN encodings
                    THEN Lookups[failing][1]
                    ELSE pd[Lookups[failing][2]])
        ELSE IF unknown # {}
        THEN Raised("KeyError",
                    FeatureKey(feature_order[CHOOSE i \in unknown :
                                                \A j \in unknown : i <= j]))
        ELSE IF absent # {}
        THEN Raised("ValueError",
                    scaler_features[CHOOSE k \in absent : \A j \in absent : k <= j])
        ELSE IF Len(scaler_features) # Len(scaler.mean)
        THEN Raised("ValueError", "n_features_in_")
        ELSE
            LET data_dict == Encoded(pd, encodings)
                data_array == [i \in 1..Len(feature_order) |->
                                  data_dict[FeatureKey(feature_order[i])]]
                feature_indices == [k \in 1..Len(scaler_features) |->
                                       Index(feature_order, scaler_features[k])]
                scaled == Transform(scaler,
                                    [k \in 1..Len(scaler_features) |->
                                        data_array[feature_indices[k]]])
            IN  [array |->
                    [i \in 1..Len(data_array) |->
                        IF \E k \in 1..Len(scaler_features) : feature_indices[k] = i
                        THEN scaled[CHOOSE k \in 1..Len(scaler_features) :
                                       feature_indices[k] = i]
                        ELSE data_array[i]]]

(***************************************************************************)
(* The classifier: a fitted estimator that splits one column of the row at *)
(* a threshold.  It rejects a row of another width than it was fitted on.  *)
(* An ensemble has estimators_, whose outputs have the deviation std_dev.  *)
(***************************************************************************)
Classifiers ==
    { [n_features_in |-> 9, column |-> 1, threshold |-> 0,
       below |-> Pct(10), above |-> Pct(90),
       has_estimators |-> TRUE, std_dev |-> Pct(5)] }

\* A classifier put in the place of the loaded one: no ensemble, and the
\* opposite probabilities.
MockClassifier ==
    [n_features_in |-> 9, column |-> 1, threshold |-> 0,
     below |-> Pct(90), above |-> Pct(10),
     has_estimators |-> FALSE, std_dev |-> 0]

\* Probabilities a classifier gives a record: the ends of [0, 1] and every
\* ten-thousandth of [0.338, 0.3395] and of [0.588, 0.5895].
ResponseProbabilities ==
    {0, Scale}
        \cup { k * (Scale \div 10000) : k \in (3380..3395) \cup (5880..5895) }

\* Classifiers that give every row the same probability, with and without an
\* ensemble.
ResponseClassifiers ==
    { [n_features_in |-> 9, column |-> 1, threshold |-> 0,
       below |-> b, above |-> b,
       has_estimators |-> e, std_dev |-> IF e THEN Pct(5) ELSE 0] :
         b \in ResponseProbabilities, e \in BOOLEAN }

\* model.predict_proba(processed_data)[0, 1]
PredictProba(model, row) ==
    IF Len(row) # model.n_features_in
    THEN Raised("ValueError", "n_features_in_")
    ELSE [proba |-> IF row[model.column] <= model.threshold
                    THEN model.below ELSE model.above]

\* The attributes of a predictor whose _load_models returned.
LoadedPredictors ==
    [model : Classifiers, scaler : Scalers, encoding_info : Catalogs]

(***************************************************************************)
(* get_risk_factors.  The dict is the sequence of its items in insertion   *)
(* order; an item is <<key, text>>.  A text is <<template>>, or            *)
(* <<template, n>> for an f-string that formats the number n into the      *)
(* template (exercise_hours in tenths of an hour).  Templates and keys are *)
(* the source literals without accents and emoji.                          *)
(***************************************************************************)
Item(key, template) == << <<key, <<template>> >> >>

ItemF(key, template, n) == << <<key, <<template, n>> >> >>

Keys(d) == { d[i][1] : i \in 1..Len(d) }

Lookup(d, key) == d[CHOOSE i \in 1..Len(d) : d[i][1] = key][2]

\* Mutant of EdadFactor: the lowest band of either gender starts one year
\* later.
MutEdadFactor(pd) ==
    IF pd.gender = "Male"
    THEN IF pd.age >= 60
         THEN ItemF("Edad", "{age} anos - Hombre (riesgo alto por edad avanzada)", pd.age)
         ELSE IF pd.age >= 45
         THEN ItemF("Edad", "{age} anos - Hombre (riesgo moderado por edad)", pd.age)
         ELSE IF pd.age > 35
         THEN ItemF("Edad", "{age} anos - Hombre (inicio de riesgo por edad)", pd.age)
         ELSE <<>>
    ELSE IF pd.age >= 65
         THEN ItemF("Edad", "{age} anos - Mujer (riesgo alto post-menopausico)", pd.age)
         ELSE IF pd.age >= 55
         THEN ItemF("Edad", "{age} anos - Mujer (riesgo moderado post-menopausico)", pd.age)
         ELSE IF pd.age > 50
         THEN ItemF("Edad", "{age} anos - Mujer (transicion menopausica)", pd.age)
         ELSE <<>>

EdadFactor(pd) ==
    IF pd.gender = "Male"
    THEN IF pd.age >= 60
         THEN ItemF("Edad", "{age} anos - Hombre (riesgo alto por edad avanzada)", pd.age)
         ELSE IF pd.age >= 45
         THEN ItemF("Edad", "{age} anos - Hombre (riesgo moderado por edad)", pd.age)
         ELSE IF pd.age >= 35
         THEN ItemF("Edad", "{age} anos - Hombre (inicio de riesgo por edad)", pd.age)
         ELSE <<>>
    ELSE IF pd.age >= 65
         THEN ItemF("Edad", "{age} anos - Mujer (riesgo alto post-menopausico)", pd.age)
         ELSE IF pd.age >= 55
         THEN ItemF("Edad", "{age} anos - Mujer (riesgo moderado post-menopausico)", pd.age)
         ELSE IF pd.age >= 50
         THEN ItemF("Edad", "{age} anos - Mujer (transicion menopausica)", pd.age)
         ELSE <<>>

TabaquismoFactor(pd) ==
    IF pd.smoking = "Current"
    THEN IF pd.age >= 50
         THEN Item("Tabaquismo", "Fumador actual - CRITICO en su edad (dano acumulativo)")
         ELSE Item("Tabaquismo", "Fumador actual - Factor de riesgo mayor modificable")
    ELSE IF pd.smoking = "Former"
    THEN Item("Tabaquismo", "Ex-fumador (riesgo residual, pero felicitaciones por dejarlo!)")
    ELSE <<>>

DiabetesFactor(pd) ==
    IF pd.diabetes = "Yes"
    THEN IF pd.age >= 50
         THEN Item("Diabetes", "Diabetes presente - MUY GRAVE en su edad (riesgo cardiovascular duplicado)")
         ELSE Item("Diabetes", "Diabetes presente - Requiere control estricto para prevenir complicaciones")
    ELSE <<>>

ObesidadFactor(pd) ==
    IF pd.obesity = "Yes"
    THEN IF pd.age <= 40
         THEN Item("Obesidad", "Obesidad presente - Especialmente preocupante a su edad")
         ELSE Item("Obesidad", "Obesidad presente - Factor de riesgo modificable importante")
    ELSE <<>>

HistoriaFamiliarFactor(pd) ==
    IF pd.family_history = "Yes"
    THEN IF pd.age <= 45
         THEN Item("Historia Familiar", "Historia familiar positiva - MUY RELEVANTE a su edad (predisposicion genetica)")
         ELSE Item("Historia Familiar", "Historia familiar positiva - Aumenta el riesgo base")
    ELSE <<>>

\* Mutant of SedentarismoFactor: the second band ends at 1 hour.
MutSedentarismoFactor(pd) ==
    IF pd.exercise_hours < 5
    THEN ItemF("Sedentarismo", "Sedentarismo extremo - Solo {exercise_hours}h/semana (URGENTE cambiar!)",
               pd.exercise_hours)
    ELSE IF pd.exercise_hours < 10
    THEN ItemF("Sedentarismo", "Actividad insuficiente - {exercise_hours}h/semana (minimo recomendado: 2.5h)",
               pd.exercise_hours)
    ELSE IF pd.exercise_hours < 25
    THEN ItemF("Actividad Baja", "Ejercicio por debajo del optimo - {exercise_hours}h/semana",
               pd.exercise_hours)
    ELSE <<>>

SedentarismoFactor(pd) ==
    IF pd.exercise_hours < 5
    THEN ItemF("Sedentarismo", "Sedentarismo extremo - Solo {exercise_hours}h/semana (URGENTE cambiar!)",
               pd.exercise_hours)
    ELSE IF pd.exercise_hours < 15
    THEN ItemF("Sedentarismo", "Actividad insuficiente - {exercise_hours}h/semana (minimo recomendado: 2.5h)",
               pd.exercise_hours)
    ELSE IF pd.exercise_hours < 25
    THEN ItemF("Actividad Baja", "Ejercicio por debajo del optimo - {exercise_hours}h/semana",
               pd.exercise_hours)
    ELSE <<>>

\* Mutant of EstresFactor: the text of level 8 for every level from 8 on.
MutEstresFactor(pd) ==
    IF pd.stress_level >= 8
    THEN ItemF("Estres", "Estres muy alto - Nivel {stress_level}/10 (dano cardiovascular comprobado)",
               pd.stress_level)
    ELSE IF pd.stress_level >= 6
    THEN ItemF("Estres", "Estres elevado - Nivel {stress_level}/10 (puede aumentar presion arterial)",
               pd.stress_level)
    ELSE <<>>

EstresFactor(pd) ==
    IF pd.stress_level >= 9
    THEN ItemF("Estres", "Estres extremo - Nivel {stress_level}/10 (CRISIS! Afecta directamente al corazon)",
               pd.stress_level)
    ELSE IF pd.stress_level >= 8
    THEN ItemF("Estres", "Estres muy alto - Nivel {stress_level}/10 (dano cardiovascular comprobado)",
               pd.stress_level)
    ELSE IF pd.stress_level >= 6
    THEN ItemF("Estres", "Estres elevado - Nivel {stress_level}/10 (puede aumentar presion arterial)",
               pd.stress_level)
    ELSE <<>>

AlcoholFactor(pd) ==
    IF pd.alcohol_intake = "Heavy"
    THEN IF pd.age >= 50
         THEN Item("Alcohol", "Consumo alto de alcohol - Especialmente danino a su edad")
         ELSE Item("Alcohol", "Consumo alto de alcohol - Factor de riesgo cardiovascular")
    ELSE <<>>

\* Mutant of SynergyFactors: the metabolic-syndrome entry without the test
\* of exercise_hours.
MutSynergyFactors(pd) ==
    (IF pd.smoking = "Current" /\ pd.diabetes = "Yes"
     THEN Item("COMBINACION CRITICA", "Diabetes + Tabaquismo = Riesgo exponencial")
     ELSE <<>>)
    \o (IF pd.obesity = "Yes" /\ pd.diabetes = "Yes"
        THEN Item("SINDROME METABOLICO", "Obesidad + Diabetes + Sedentarismo = Muy alto riesgo")
        ELSE <<>>)
    \o (IF pd.stress_level >= 8 /\ pd.exercise_hours < 10
        THEN Item("CIRCULO VICIOSO", "Estres alto + Sedentarismo = Se refuerzan mutuamente")
        ELSE <<>>)

SynergyFactors(pd) ==
    (IF pd.smoking = "Current" /\ pd.diabetes = "Yes"
     THEN Item("COMBINACION CRITICA", "Diabetes + Tabaquismo = Riesgo exponencial")
     ELSE <<>>)
    \o (IF pd.obesity = "Yes" /\ pd.diabetes = "Yes" /\ pd.exercise_hours < 10
        THEN Item("SINDROME METABOLICO", "Obesidad + Diabetes + Sedentarismo = Muy alto riesgo")
        ELSE <<>>)
    \o (IF pd.stress_level >= 8 /\ pd.exercise_hours < 10
        THEN Item("CIRCULO VICIOSO", "Estres alto + Sedentarismo = Se refuerzan mutuamente")
        ELSE <<>>)

GetRiskFactors(pd) ==
    EdadFactor(pd) \o TabaquismoFactor(pd) \o DiabetesFactor(pd)
        \o ObesidadFactor(pd) \o HistoriaFamiliarFactor(pd)
        \o SedentarismoFactor(pd) \o EstresFactor(pd) \o AlcoholFactor(pd)
        \o SynergyFactors(pd)

(***************************************************************************)
(* get_recommendations.  `word in text` is Python's substring test; the    *)
(* formatted numbers hold digits only, so the test is decided by the       *)
(* template: Containing(word) lists the templates of get_risk_factors in   *)
(* which the word occurs.                                                  *)
(***************************************************************************)
Containing(word) ==
    IF word = "actual"
    THEN { "Fumador actual - CRITICO en su edad (dano acumulativo)",
           "Fumador actual - Factor de riesgo mayor modificable" }
    ELSE IF word = "muy alto"
    THEN { "Estres muy alto - Nivel {stress_level}/10 (dano cardiovascular comprobado)" }
    ELSE IF word = "alto"
    THEN { "{age} anos - Hombre (riesgo alto por edad avanzada)",
           "{age} anos - Mujer (riesgo alto post-menopausico)",
           "Estres muy alto - Nivel {stress_level}/10 (dano cardiovascular comprobado)",
           "Consumo alto de alcohol - Especialmente danino a su edad",
           "Consumo alto de alcohol - Factor de riesgo cardiovascular",
           "Obesidad + Diabetes + Sedentarismo = Muy alto riesgo",
           "Estres alto + Sedentarismo = Se refuerzan mutuamente" }
    ELSE {}

Contains(word, text) == text[1] \in Containing(word)

HighBlock ==
    << "ALTA PRIORIDAD: Consulte a un cardiologo INMEDIATAMENTE",
       "Examenes urgentes: ECG, perfil lipidico completo, ecocardiograma",
       "Evalue medicacion preventiva con su medico (estatinas, aspirina)",
       "Monitoreo semanal de presion arterial" >>

ModerateBlock ==
    << "Programe consulta medica en las proximas 2-4 semanas",
       "Realice examenes cardiovasculares: ECG, perfil lipidico",
       "Chequeos medicos cada 3-6 meses",
       "Monitoree presion arterial mensualmente" >>

LowBlock ==
    << "Excelente perfil cardiovascular - Continue asi",
       "Mantenga chequeos medicos anuales preventivos",
       "Enfoque en mantener habitos saludables actuales",
       "Su estilo de vida esta protegiendo su corazon" >>

MutTierBlock(p) ==
    IF p > Pct(60) THEN HighBlock
    ELSE IF p >= Pct(35) THEN ModerateBlock
    ELSE LowBlock

TierBlock(p) ==
    IF p >= Pct(60) THEN HighBlock
    ELSE IF p >= Pct(35) THEN ModerateBlock
    ELSE LowBlock

QuitSmokingLines ==
    << "CRITICO: Deje de fumar HOY - es su prioridad #1",
       "Linea de ayuda para dejar de fumar: consiga apoyo profesional" >>

FormerSmokerLines == << "Excelente por haber dejado de fumar - mantengase asi" >>

SmokingBlock(factors) ==
    IF "Tabaquismo" \in Keys(factors)
    THEN IF Contains("actual", Lookup(factors, "Tabaquismo"))
         THEN QuitSmokingLines
         ELSE FormerSmokerLines
    ELSE <<>>

SedentaryLines ==
    << "URGENTE: Inicie programa de ejercicio gradual",
       "Comience con 15 min diarios de caminata, aumente gradualmente",
       "Meta: 150 minutos de ejercicio moderado por semana" >>

PraiseLine == "Su nivel de ejercicio esta protegiendo su corazon"

\* Mutant of ExerciseBlock: the praise as an `if` of its own.
MutExerciseBlock(p, factors) ==
    (IF "Sedentarismo" \in Keys(factors) THEN SedentaryLines ELSE <<>>)
        \o (IF p < Pct(35) THEN << PraiseLine >> ELSE <<>>)

ExerciseBlock(p, factors) ==
    IF "Sedentarismo" \in Keys(factors)
    THEN SedentaryLines
    ELSE IF p < Pct(35) THEN << PraiseLine >>
    ELSE <<>>

ObesityLines ==
    << "IMPORTANTE: Plan de perdida de peso con nutricionista",
       "Dieta mediterranea recomendada para la salud cardiovascular",
       "Objetivo inicial: reducir 5-10% del peso actual" >>

ObesityBlock(factors) ==
    IF "Obesidad" \in Keys(factors) THEN ObesityLines ELSE <<>>

StressUrgentLines ==
    << "URGENTE: Tecnicas de manejo del estres - meditacion, yoga",
       "Priorice 7-8 horas de sueno reparador",
       "Considere apoyo psicologico para manejo del estres" >>

RelaxationLines == << "Practique relajacion diaria: 10-15 minutos" >>

StressBlock(factors) ==
    IF "Estres" \in Keys(factors)
    THEN IF Contains("muy alto", Lookup(factors, "Estres"))
         THEN StressUrgentLines
         ELSE RelaxationLines
    ELSE <<>>

DiabetesLines ==
    << "CRITICO: Control estricto de diabetes con endocrinologo",
       "Hemoglobina glicada (HbA1c) objetivo: < 7%",
       "Nutricionista especializada en diabetes" >>

DiabetesBlock(factors) ==
    IF "Diabetes" \in Keys(factors) THEN DiabetesLines ELSE <<>>

AlcoholLines ==
    << "Reduzca consumo de alcohol: maximo 1-2 bebidas/dia",
       "Considere dias sin alcohol durante la semana" >>

AlcoholBlock(factors) ==
    IF "Alcohol" \in Keys(factors) /\ Contains("alto", Lookup(factors, "Alcohol"))
    THEN AlcoholLines
    ELSE <<>>

ClosingLines ==
    << "Felicitaciones! Su perfil cardiovascular es excelente",
       "Sus habitos saludables son su mejor medicina preventiva" >>

ClosingBlock(p) ==
    IF p < Pct(20) THEN ClosingLines ELSE <<>>

\* The statements of get_recommendations that append, in source order.
Blocks == 1..8

\* Mutant of BlockAt: the stress check before the obesity check.
MutBlockAt(k, p, factors) ==
    CASE k = 1 -> TierBlock(p)
      [] k = 2 -> SmokingBlock(factors)
      [] k = 3 -> ExerciseBlock(p, factors)
      [] k = 4 -> StressBlock(factors)
      [] k = 5 -> ObesityBlock(factors)
      [] k = 6 -> DiabetesBlock(factors)
      [] k = 7 -> AlcoholBlock(factors)
      [] k = 8 -> ClosingBlock(p)

\* What the k-th of them appends.
BlockAt(k, p, factors) ==
    CASE k = 1 -> TierBlock(p)
      [] k = 2 -> SmokingBlock(factors)
      [] k = 3 -> ExerciseBlock(p, factors)
      [] k = 4 -> ObesityBlock(factors)
      [] k = 5 -> StressBlock(factors)
      [] k = 6 -> DiabetesBlock(factors)
      [] k = 7 -> AlcoholBlock(factors)
      [] k = 8 -> ClosingBlock(p)

RECURSIVE AppendBlocks(_, _, _)
AppendBlocks(k, p, factors) ==
    IF k = 0 THEN <<>>
    ELSE AppendBlocks(k - 1, p, factors) \o BlockAt(k, p, factors)

GetRecommendations(p, factors) == AppendBlocks(8, p, factors)

(***************************************************************************)
(* Request validation: the Field constraints and the validators of         *)
(* PatientData.  A body is a JSON object; the result is the set of fields  *)
(* FastAPI reports in its 422 response, empty for a body that is accepted. *)
(***************************************************************************)
\* Mutant of FieldInvalid: age with gt=18 in place of ge=18.
MutFieldInvalid(f, v) ==
    CASE f = "age" -> ~(v > 18 /\ v <= 100)
      [] f = "exercise_hours" -> ~(v >= 0 /\ v <= 240)
      [] f = "stress_level" -> ~(v >= 1 /\ v <= 10)
      [] f = "gender" -> v \notin {"Male", "Female"}
      [] f = "smoking" -> v \notin {"Never", "Former", "Current"}
      [] f = "alcohol_intake" -> v \notin {"None", "Light", "Moderate", "Heavy"}
      [] f \in {"diabetes", "family_history", "obesity"} -> v \notin {"Yes", "No"}

FieldInvalid(f, v) ==
    CASE f = "age" -> ~(v >= 18 /\ v <= 100)
      [] f = "exercise_hours" -> ~(v >= 0 /\ v <= 240)
      [] f = "stress_level" -> ~(v >= 1 /\ v <= 10)
      [] f = "gender" -> v \notin {"Male", "Female"}
      [] f = "smoking" -> v \notin {"Never", "Former", "Current"}
      [] f = "alcohol_intake" -> v \notin {"None", "Light", "Moderate", "Heavy"}
      [] f \in {"diabetes", "family_history", "obesity"} -> v \notin {"Yes", "No"}

\* Every field is required (Field(...)).
ValidationErrors(body) ==
    { f \in Fields : f \notin DOMAIN body \/ FieldInvalid(f, body[f]) }

UnprocessableEntity(errors) == [status |-> 422, detail |-> errors]

(***************************************************************************)
(* predictor.predict and the /predict handler of main.py, on the state of  *)
(* one request: the body it came with, the PatientData object made of it,  *)
(* the locals of predict_risk, and the response.  `called` lists the       *)
(* predictor methods the request has invoked, `before` the requests that   *)
(* were answered when it arrived.                                          *)
(***************************************************************************)
NoResponse == [status |-> 0]

IdleRequest ==
    [pc |-> "idle", body |-> NoPatient, patient_data |-> NoPatient, before |-> {},
     called |-> <<>>, prediction |-> 0, probability |-> 0,
     confidence_interval |-> NoInterval, risk_level |-> "",
     risk_factors |-> <<>>, recommendations |-> <<>>, response |-> NoResponse]

\* predictor.predict(patient_data): the triple it returns, or the exception
\* preprocess_data or the classifier raises.
PredictResult(pr, pd) ==
    LET processed == PreprocessData(pd, pr.encoding_info, pr.scaler)
    IN  IF IsRaised(processed) THEN processed
        ELSE LET proba == PredictProba(pr.model, processed.array)
             IN  IF IsRaised(proba) THEN proba
                 ELSE LET adjusted == ApplyMedicalLogic(pd, proba.proba)
                      IN  [prediction |-> FinalPrediction(adjusted),
                           probability |-> adjusted,
                           confidence_interval |->
                               ConfidenceInterval(adjusted, pr.model.has_estimators,
                                                  pr.model.std_dev)]

\* round(x, 3), in thousandths.
Round3(x) == (x + (Scale \div 2000)) \div (Scale \div 1000)

\* Mutant of ServerError: the exception answered with a 200 and the fields
\* computed so far.
MutServerError(r, exception) ==
    [status |-> 200, risk_prediction |-> r.risk_level,
     risk_probability |-> Round3(r.probability)]

\* except Exception as e: raise HTTPException(status_code=500, detail=...)
ServerError(r, exception) ==
    [status |-> 500,
     detail |-> <<"Error procesando prediccion: {str(e)}", exception.raised>>]

\* Mutant of PredictionResponse: the response also carries the number of
\* requests answered before this one arrived.
MutPredictionResponse(r) ==
    [status |-> 200,
     risk_prediction |-> r.risk_level,
     risk_probability |-> Round3(r.probability),
     confidence_interval |-> << Round3(r.confidence_interval[1]),
                                Round3(r.confidence_interval[2]) >>,
     risk_factors |-> r.risk_factors,
     recommendations |-> r.recommendations,
     request_number |-> Cardinality(r.before),
     disclaimer |-> "Esta prediccion es solo orientativa y no reemplaza la consulta medica profesional."]

\* return PredictionResponse(...)
PredictionResponse(r) ==
    [status |-> 200,
     risk_prediction |-> r.risk_level,
     risk_probability |-> Round3(r.probability),
     confidence_interval |-> << Round3(r.confidence_interval[1]),
                                Round3(r.confidence_interval[2]) >>,
     risk_factors |-> r.risk_factors,
     recommendations |-> r.recommendations,
     disclaimer |-> "Esta prediccion es solo orientativa y no reemplaza la consulta medica profesional."]

\* prediction, probability, confidence_interval = predictor.predict(patient_data)
AfterPredict(r, pr) ==
    LET result == PredictResult(pr, r.patient_data)
        entered == [r EXCEPT !.called = Append(@, "predict")]
    IN  IF IsRaised(result)
        THEN [entered EXCEPT !.pc = "done", !.response = ServerError(r, result)]
        ELSE [entered EXCEPT !.pc = "predicted",
                             !.prediction = result.prediction,
                             !.probability = result.probability,
                             !.confidence_interval = result.confidence_interval]

\* risk_level = predictor.get_risk_level(probability)
AfterRiskLevel(r) ==
    [r EXCEPT !.pc = "classified", !.called = Append(@, "get_risk_level"),
              !.risk_level = GetRiskLevel(r.probability)]

\* Mutant of AfterRiskFactors: no factors reported for a low-tier result.
MutAfterRiskFactors(r) ==
    [r EXCEPT !.pc = "explained", !.called = Append(@, "get_risk_factors"),
              !.risk_factors = IF r.risk_level = "Bajo Riesgo" THEN <<>>
                               ELSE GetRiskFactors(r.patient_data)]

\* risk_factors = predictor.get_risk_factors(patient_data)
AfterRiskFactors(r) ==
    [r EXCEPT !.pc = "explained", !.called = Append(@, "get_risk_factors"),
              !.risk_factors = GetRiskFactors(r.patient_data)]

\* recommendations = predictor.get_recommendations(probability, risk_factors)
\* and, with nothing but the log line in between, the return of the response.
AfterRecommendations(r) ==
    LET advised ==
            [r EXCEPT !.called = Append(@, "get_recommendations"),
                      !.recommendations =
                          GetRecommendations(r.probability, r.risk_factors)]
    IN  [advised EXCEPT !.pc = "done", !.response = PredictionResponse(advised)]

\* The response of a request that is handled with nothing else going on.
RunAlone(pr, pd) ==
    LET start == [IdleRequest EXCEPT !.pc = "handler", !.patient_data = pd]
        predicted == AfterPredict(start, pr)
    IN  IF predicted.pc = "done" THEN predicted.response
        ELSE AfterRecommendations(AfterRiskFactors(AfterRiskLevel(predicted))).response

\* The variables of the explanation stage while no explanation has been made.
NoTexts == risk_factors = <<>> /\ recommendations = <<>> /\ block = 0

\* The variables of the server while no server is modelled.
NoServer ==
    /\ predictor = <<>>
    /\ processed_data = <<>>
    /\ requests = <<>>
    /\ health = <<>>

(***************************************************************************)
(* _apply_medical_logic on its own: Init draws a validated record and a    *)
(* base probability, the action applies the function to them.              *)
(***************************************************************************)
InitLogic ==
    /\ NoTexts
    /\ NoServer
    /\ pc = "logic_call"
    /\ patient_data \in PatientData
    /\ model_probability \in BaseProbabilities
    /\ adjusted_probability = 0
    /\ has_estimators = FALSE
    /\ std_dev = 0
    /\ final_prediction = 0
    /\ confidence_interval = NoInterval
    /\ probability = <<0, 0>>
    /\ risk_level = <<"", "">>
    /\ evaluated = {}
    /\ scores = NoScores
    /\ stress_saw = -1

ApplyLogic ==
    /\ pc = "logic_call"
    /\ adjusted_probability' = ApplyMedicalLogic(patient_data, model_probability)
    /\ pc' = "logic_return"
    /\ UNCHANGED <<inputVars, std_dev, final_prediction, confidence_interval,
                   tierVars, orderVars, textVars, serverVars>>

NextLogic == ApplyLogic

SpecLogic == InitLogic /\ [][NextLogic]_vars

(***************************************************************************)
(* The request pipeline of predict_risk: predictor.predict, then           *)
(* get_risk_level on the adjusted probability.                             *)
(***************************************************************************)
Init ==
    /\ NoTexts
    /\ NoServer
    /\ pc = "request"
    /\ patient_data \in PipelinePatients
    /\ model_probability \in BaseProbabilities
    /\ has_estimators \in BOOLEAN
    /\ std_dev = 0
    /\ adjusted_probability = 0
    /\ final_prediction = 0
    /\ confidence_interval = NoInterval
    /\ probability = <<0, 0>>
    /\ risk_level = <<"", "">>
    /\ evaluated = {}
    /\ scores = NoScores
    /\ stress_saw = -1

\* predictor.predict.  model_prediction (the classifier's own label) is read
\* and never used.  The per-tree probabilities are the classifier's, so their
\* deviation is any of StdDevs; without estimators_ none is computed.
Predict ==
    /\ pc = "request"
    /\ std_dev' \in (IF has_estimators THEN StdDevs ELSE {0})
    /\ adjusted_probability' = ApplyMedicalLogic(patient_data, model_probability)
    /\ final_prediction' = FinalPrediction(adjusted_probability')
    /\ confidence_interval' =
           ConfidenceInterval(adjusted_probability', has_estimators, std_dev')
    /\ pc' = "predicted"
    /\ UNCHANGED <<inputVars, tierVars, orderVars, textVars, serverVars>>

\* risk_level = predictor.get_risk_level(probability)
RiskLevel ==
    /\ pc = "predicted"
    /\ probability' = <<adjusted_probability, adjusted_probability>>
    /\ risk_level' = <<GetRiskLevel(adjusted_probability),
                       GetRiskLevel(adjusted_probability)>>
    /\ pc' = "classified"
    /\ UNCHANGED <<inputVars, predictVars, orderVars, textVars, serverVars>>

Next == Predict \/ RiskLevel

Spec == Init /\ [][Next]_vars

(***************************************************************************)
(* get_risk_level on its own, called on two probabilities.                 *)
(***************************************************************************)
InitTier ==
    /\ NoTexts
    /\ NoServer
    /\ pc = "tier_call"
    /\ probability \in TierProbabilities \X TierProbabilities
    /\ risk_level = <<"", "">>
    /\ patient_data = NoPatient
    /\ model_probability = 0
    /\ has_estimators = FALSE
    /\ std_dev = 0
    /\ adjusted_probability = 0
    /\ final_prediction = 0
    /\ confidence_interval = NoInterval
    /\ evaluated = {}
    /\ scores = NoScores
    /\ stress_saw = -1

ClassifyPair ==
    /\ pc = "tier_call"
    /\ risk_level' = <<GetRiskLevel(probability[1]), GetRiskLevel(probability[2])>>
    /\ pc' = "tier_return"
    /\ UNCHANGED <<inputVars, predictVars, probability, orderVars, textVars, serverVars>>

NextTier == ClassifyPair

SpecTier == InitTier /\ [][NextTier]_vars

(***************************************************************************)
(* _apply_medical_logic statement group by statement group: the score      *)
(* accumulation, the blend of the base and the logic probability, then the *)
(* special cases and the final clamp.                                      *)
(***************************************************************************)
InitBlend ==
    /\ NoTexts
    /\ NoServer
    /\ pc = "logic_call"
    /\ patient_data \in BlendPatients
    /\ model_probability \in BlendBases
    /\ scores = NoScores
    /\ adjusted_probability = 0
    /\ has_estimators = FALSE
    /\ std_dev = 0
    /\ final_prediction = 0
    /\ confidence_interval = NoInterval
    /\ probability = <<0, 0>>
    /\ risk_level = <<"", "">>
    /\ evaluated = {}
    /\ stress_saw = -1

\* risk_score and protective_score after the last rule.
AccumulateScores ==
    /\ pc = "logic_call"
    /\ scores' = Scores(patient_data)
    /\ pc' = "accumulated"
    /\ UNCHANGED <<inputVars, predictVars, tierVars, evaluated, stress_saw,
                   textVars, serverVars>>

\* adjusted_prob = model_weight * base_probability + logic_weight * logic_probability
BlendStep ==
    /\ pc = "accumulated"
    /\ adjusted_probability' = BlendScores(scores, model_probability)
    /\ pc' = "blended"
    /\ UNCHANGED <<inputVars, std_dev, final_prediction, confidence_interval,
                   tierVars, orderVars, textVars, serverVars>>

\* The special cases and return max(0.01, min(0.99, adjusted_prob)).
SpecialCases ==
    /\ pc = "blended"
    /\ adjusted_probability' =
           FinalClamp(Overrides(patient_data, adjusted_probability))
    /\ pc' = "logic_return"
    /\ UNCHANGED <<inputVars, std_dev, final_prediction, confidence_interval,
                   tierVars, orderVars, textVars, serverVars>>

NextBlend == AccumulateScores \/ BlendStep \/ SpecialCases

SpecBlend == InitBlend /\ [][NextBlend]_vars

(***************************************************************************)
(* Two calls of _apply_medical_logic on the same record, the first with a  *)
(* base probability below that of the second; they return in any order.    *)
(***************************************************************************)
InitMonotone ==
    /\ NoTexts
    /\ pc = "two_calls"
    /\ patient_data \in MonotonePatients
    /\ \E b1, b2 \in BlendBases :
           /\ b1 < b2
           /\ requests = << [pc |-> "logic_call", base_probability |-> b1,
                              adjusted_prob |-> b1],
                            [pc |-> "logic_call", base_probability |-> b2,
                              adjusted_prob |-> b2] >>
    /\ predictor = <<>>
    /\ processed_data = <<>>
    /\ health = <<>>
    /\ model_probability = 0
    /\ adjusted_probability = 0
    /\ has_estimators = FALSE
    /\ std_dev = 0
    /\ final_prediction = 0
    /\ confidence_interval = NoInterval
    /\ probability = <<0, 0>>
    /\ risk_level = <<"", "">>
    /\ evaluated = {}
    /\ scores = NoScores
    /\ stress_saw = -1

\* Call i returns max(0.01, min(0.99, adjusted_prob)).
ApplyLogicCall(i) ==
    /\ requests[i].pc = "logic_call"
    /\ requests' = [requests EXCEPT
                       ![i].adjusted_prob =
                           ApplyMedicalLogic(patient_data, requests[i].base_probability),
                       ![i].pc = "logic_return"]
    /\ UNCHANGED <<pc, inputVars, predictVars, tierVars, orderVars, textVars,
                   predictor, processed_data, health>>

NextMonotone == \E i \in 1..2 : ApplyLogicCall(i)

SpecMonotone == InitMonotone /\ [][NextMonotone]_vars

(***************************************************************************)
(* The score accumulation of _apply_medical_logic with its rule groups     *)
(* taken in any order: each step adds one group not yet evaluated to the   *)
(* running risk_score and protective_score.                                *)
(***************************************************************************)
InitOrder ==
    /\ NoTexts
    /\ NoServer
    /\ pc = "accumulate"
    /\ patient_data \in OrderPatients \cup StressPatients
    /\ evaluated = {}
    /\ scores = NoScores
    /\ stress_saw = -1
    /\ model_probability = 0
    /\ has_estimators = FALSE
    /\ std_dev = 0
    /\ adjusted_probability = 0
    /\ final_prediction = 0
    /\ confidence_interval = NoInterval
    /\ probability = <<0, 0>>
    /\ risk_level = <<"", "">>

EvaluateRule(g) ==
    /\ pc = "accumulate"
    /\ g \notin evaluated
    /\ scores' = ApplyRule(g, patient_data, scores)
    /\ evaluated' = evaluated \cup {g}
    /\ stress_saw' = IF g = "stress" THEN scores.risk ELSE stress_saw
    /\ pc' = IF evaluated' = RuleGroups THEN "accumulated" ELSE "accumulate"
    /\ UNCHANGED <<inputVars, predictVars, tierVars, textVars, serverVars>>

NextOrder == \E g \in RuleGroups : EvaluateRule(g)

SpecOrder == InitOrder /\ [][NextOrder]_vars

(***************************************************************************)
(* get_risk_factors and get_recommendations on their own, called as        *)
(* predict_risk calls them: the factors of a record, then the              *)
(* recommendations for a probability and those factors, built block by     *)
(* block.                                                                  *)
(***************************************************************************)
InitRecs ==
    /\ NoTexts
    /\ NoServer
    /\ pc = "factors_call"
    /\ patient_data \in RecPatients
    /\ adjusted_probability \in RecProbabilities
    /\ model_probability = 0
    /\ has_estimators = FALSE
    /\ std_dev = 0
    /\ final_prediction = 0
    /\ confidence_interval = NoInterval
    /\ probability = <<0, 0>>
    /\ risk_level = <<"", "">>
    /\ evaluated = {}
    /\ scores = NoScores
    /\ stress_saw = -1

\* risk_factors = predictor.get_risk_factors(patient_data)
RiskFactors ==
    /\ pc = "factors_call"
    /\ risk_factors' = GetRiskFactors(patient_data)
    /\ pc' = "recs_call"
    /\ UNCHANGED <<inputVars, predictVars, tierVars, orderVars,
                   recommendations, block, serverVars>>

\* recommendations = predictor.get_recommendations(probability, risk_factors),
\* one appending statement of the function at a time.
Recommendations ==
    /\ pc = "recs_call"
    /\ block' = block + 1
    /\ recommendations' =
           recommendations \o BlockAt(block', adjusted_probability, risk_factors)
    /\ pc' = IF block' = 8 THEN "recs_return" ELSE "recs_call"
    /\ UNCHANGED <<inputVars, predictVars, tierVars, orderVars, risk_factors,
                   serverVars>>

NextRecs == RiskFactors \/ Recommendations

SpecRecs == InitRecs /\ [][NextRecs]_vars

(***************************************************************************)
(* get_risk_factors on its own, on records around its age and exercise     *)
(* limits.                                                                 *)
(***************************************************************************)
InitFactors ==
    /\ NoTexts
    /\ NoServer
    /\ pc = "factors_call"
    /\ patient_data \in FactorPatients
    /\ adjusted_probability = 0
    /\ model_probability = 0
    /\ has_estimators = FALSE
    /\ std_dev = 0
    /\ final_prediction = 0
    /\ confidence_interval = NoInterval
    /\ probability = <<0, 0>>
    /\ risk_level = <<"", "">>
    /\ evaluated = {}
    /\ scores = NoScores
    /\ stress_saw = -1

NextFactors == RiskFactors

SpecFactors == InitFactors /\ [][NextFactors]_vars

(***************************************************************************)
(* preprocess_data on its own, called on a record that did not pass the    *)
(* validators, for a predictor with any of the artifacts.                  *)
(***************************************************************************)
InitEncode ==
    /\ NoTexts
    /\ pc = "preprocess_call"
    /\ patient_data \in EncodePatients
    /\ predictor \in LoadedPredictors
    /\ processed_data = <<>>
    /\ requests = <<>>
    /\ health = <<>>
    /\ model_probability = 0
    /\ has_estimators = FALSE
    /\ std_dev = 0
    /\ adjusted_probability = 0
    /\ final_prediction = 0
    /\ confidence_interval = NoInterval
    /\ probability = <<0, 0>>
    /\ risk_level = <<"", "">>
    /\ evaluated = {}
    /\ scores = NoScores
    /\ stress_saw = -1

\* processed_data = self.preprocess_data(patient_data)
Preprocess ==
    /\ pc = "preprocess_call"
    /\ processed_data' =
           PreprocessData(patient_data, predictor.encoding_info, predictor.scaler)
    /\ pc' = "preprocess_return"
    /\ UNCHANGED <<inputVars, predictVars, tierVars, orderVars, textVars,
                   predictor, requests, health>>

NextEncode == Preprocess

SpecEncode == InitEncode /\ [][NextEncode]_vars

(***************************************************************************)
(* The pipeline of predict_risk run on one record by two predictors that   *)
(* differ in the classifier only, the loaded one and a mock; the two runs  *)
(* interleave freely.                                                      *)
(***************************************************************************)
\* The predictors whose catalog and scaler fit each other and the request.
WorkingPredictors ==
    { pr \in LoadedPredictors :
        /\ pr.encoding_info \in {TrainedCatalog, ReorderedCatalog}
        /\ Len(pr.encoding_info.scaler_features) = Len(pr.scaler.mean) }

InitTwo ==
    /\ NoTexts
    /\ pc = "two_runs"
    /\ patient_data \in TwoRunPatients
    /\ \E pr \in WorkingPredictors, first \in {1, 2} :
           predictor = [i \in 1..2 |->
                           IF i = first THEN pr
                           ELSE [pr EXCEPT !.model = MockClassifier]]
    /\ requests = [i \in 1..2 |->
                      [IdleRequest EXCEPT !.pc = "handler",
                                          !.body = patient_data,
                                          !.patient_data = patient_data]]
    /\ processed_data = <<>>
    /\ health = <<>>
    /\ model_probability = 0
    /\ has_estimators = FALSE
    /\ std_dev = 0
    /\ adjusted_probability = 0
    /\ final_prediction = 0
    /\ confidence_interval = NoInterval
    /\ probability = <<0, 0>>
    /\ risk_level = <<"", "">>
    /\ evaluated = {}
    /\ scores = NoScores
    /\ stress_saw = -1

requestVars ==
    <<pc, inputVars, predictVars, tierVars, orderVars, textVars, predictor,
      processed_data, health>>

\* Run i calls predict on its own predictor.
PredictWith(i) ==
    /\ requests[i].pc = "handler"
    /\ requests' = [requests EXCEPT ![i] = AfterPredict(@, predictor[i])]
    /\ UNCHANGED requestVars

RiskLevelStep(s) ==
    /\ requests[s].pc = "predicted"
    /\ requests' = [requests EXCEPT ![s] = AfterRiskLevel(@)]
    /\ UNCHANGED requestVars

RiskFactorsStep(s) ==
    /\ requests[s].pc = "classified"
    /\ requests' = [requests EXCEPT ![s] = AfterRiskFactors(@)]
    /\ UNCHANGED requestVars

RecommendationsStep(s) ==
    /\ requests[s].pc = "explained"
    /\ requests' = [requests EXCEPT ![s] = AfterRecommendations(@)]
    /\ UNCHANGED requestVars

NextTwo ==
    \E i \in DOMAIN requests :
        \/ PredictWith(i)
        \/ RiskLevelStep(i)
        \/ RiskFactorsStep(i)
        \/ RecommendationsStep(i)

SpecTwo == InitTwo /\ [][NextTwo]_vars

(***************************************************************************)
(* The served application: importing main.py constructs the global         *)
(* predictor, whose _load_models loads the three artifacts; then /health   *)
(* and /predict requests are handled, the steps of concurrent /predict     *)
(* handlers interleaving freely.  Slots are taken in arrival order.        *)
(***************************************************************************)
None == [type |-> "NoneType"]

NoHealth == [status |-> "", models_loaded |-> FALSE]

InitServer ==
    /\ NoTexts
    /\ pc = "load_model"
    /\ predictor = [model |-> None, scaler |-> None, encoding_info |-> None]
    /\ requests = [s \in Slots |-> IdleRequest]
    /\ health = NoHealth
    /\ processed_data = <<>>
    /\ patient_data = NoPatient
    /\ model_probability = 0
    /\ has_estimators = FALSE
    /\ std_dev = 0
    /\ adjusted_probability = 0
    /\ final_prediction = 0
    /\ confidence_interval = NoInterval
    /\ probability = <<0, 0>>
    /\ risk_level = <<"", "">>
    /\ evaluated = {}
    /\ scores = NoScores
    /\ stress_saw = -1

loadVars ==
    <<inputVars, predictVars, tierVars, orderVars, textVars, processed_data,
      requests, health>>

\* Mutant of LoadFailed: the except clause without its raise.
MutLoadFailed ==
    /\ pc' = "serving"
    /\ UNCHANGED <<predictor, loadVars>>

\* except Exception as e: log and raise; the constructor and with it the
\* import of app.main fail.
LoadFailed ==
    /\ pc' = "aborted"
    /\ UNCHANGED <<predictor, loadVars>>

\* self.model = joblib.load(MODEL_PATH)
LoadModel ==
    /\ pc = "load_model"
    /\ \/ /\ \E model \in Classifiers : predictor' = [predictor EXCEPT !.model = model]
          /\ pc' = "load_scaler"
          /\ UNCHANGED loadVars
       \/ LoadFailed

\* self.scaler = joblib.load(SCALER_PATH)
LoadScaler ==
    /\ pc = "load_scaler"
    /\ \/ /\ \E scaler \in Scalers : predictor' = [predictor EXCEPT !.scaler = scaler]
          /\ pc' = "load_encoding_info"
          /\ UNCHANGED loadVars
       \/ LoadFailed

\* self.encoding_info = joblib.load(ENCODING_PATH); the import goes on and the
\* application is served.
LoadEncodingInfo ==
    /\ pc = "load_encoding_info"
    /\ \/ /\ \E catalog \in Catalogs :
                 predictor' = [predictor EXCEPT !.encoding_info = catalog]
          /\ pc' = "serving"
          /\ UNCHANGED loadVars
       \/ LoadFailed

\* GET /health
HealthCheck ==
    /\ pc = "serving"
    /\ health' = [status |-> "healthy", models_loaded |-> predictor.model # None]
    /\ UNCHANGED <<pc, inputVars, predictVars, tierVars, orderVars, textVars,
                   predictor, processed_data, requests>>

Answered == { t \in DOMAIN requests : requests[t].pc = "done" }

\* POST /predict arrives: FastAPI validates the body against PatientData and
\* answers 422 itself, or calls predict_risk with the PatientData object.
Receive(s, body) ==
    /\ pc = "serving"
    /\ requests[s].pc = "idle"
    /\ \A t \in 1..(s - 1) : requests[t].pc # "idle"
    /\ requests' =
           [requests EXCEPT ![s] =
               IF ValidationErrors(body) = {}
               THEN [IdleRequest EXCEPT !.pc = "handler", !.body = body,
                                        !.patient_data = body,
                                        !.before = Answered]
               ELSE [IdleRequest EXCEPT !.pc = "done", !.body = body,
                                        !.before = Answered,
                                        !.response =
                                            UnprocessableEntity(ValidationErrors(body))]]
    /\ UNCHANGED requestVars

\* Mutant of PredictStep: predict also refits the shared scaler.
MutPredictStep(s) ==
    /\ requests[s].pc = "handler"
    /\ requests' = [requests EXCEPT ![s] = AfterPredict(@, predictor)]
    /\ predictor' = [predictor EXCEPT !.scaler.mean = [j \in DOMAIN @ |-> @[j] + 1]]
    /\ UNCHANGED <<pc, inputVars, predictVars, tierVars, orderVars, textVars,
                   processed_data, health>>

\* prediction, probability, confidence_interval = predictor.predict(patient_data)
PredictStep(s) ==
    /\ requests[s].pc = "handler"
    /\ requests' = [requests EXCEPT ![s] = AfterPredict(@, predictor)]
    /\ UNCHANGED requestVars

NextServer ==
    \/ LoadModel
    \/ LoadScaler
    \/ LoadEncodingInfo
    \/ HealthCheck
    \/ \E s \in Slots :
        \/ (requests[s].pc = "idle" /\ \E body \in ServerBodies : Receive(s, body))
        \/ PredictStep(s)
        \/ RiskLevelStep(s)
        \/ RiskFactorsStep(s)
        \/ RecommendationsStep(s)

SpecServer == InitServer /\ [][NextServer]_vars

(***************************************************************************)
(* One /predict request with any body, sent to an application that is      *)
(* being served.                                                           *)
(***************************************************************************)
InitValidate ==
    /\ NoTexts
    /\ pc = "serving"
    /\ predictor \in WorkingPredictors
    /\ requests = [s \in {1} |-> IdleRequest]
    /\ health = NoHealth
    /\ processed_data = <<>>
    /\ patient_data = NoPatient
    /\ model_probability = 0
    /\ has_estimators = FALSE
    /\ std_dev = 0
    /\ adjusted_probability = 0
    /\ final_prediction = 0
    /\ confidence_interval = NoInterval
    /\ probability = <<0, 0>>
    /\ risk_level = <<"", "">>
    /\ evaluated = {}
    /\ scores = NoScores
    /\ stress_saw = -1

NextValidate ==
    \E s \in DOMAIN requests :
        \/ (requests[s].pc = "idle" /\ \E body \in RawBodies : Receive(s, body))
        \/ PredictStep(s)
        \/ RiskLevelStep(s)
        \/ RiskFactorsStep(s)
        \/ RecommendationsStep(s)

SpecValidate == InitValidate /\ [][NextValidate]_vars

(***************************************************************************)
(* One /predict request with a body of the tests, answered by a predictor  *)
(* whose classifier gives a probability near 0.34 or 0.59, or an end of    *)
(* [0, 1].                                                                 *)
(***************************************************************************)
InitResponse ==
    /\ NoTexts
    /\ pc = "serving"
    /\ predictor \in [model : ResponseClassifiers, scaler : Scalers,
                       encoding_info : {TrainedCatalog}]
    /\ requests = [s \in {1} |-> IdleRequest]
    /\ health = NoHealth
    /\ processed_data = <<>>
    /\ patient_data = NoPatient
    /\ model_probability = 0
    /\ has_estimators = FALSE
    /\ std_dev = 0
    /\ adjusted_probability = 0
    /\ final_prediction = 0
    /\ confidence_interval = NoInterval
    /\ probability = <<0, 0>>
    /\ risk_level = <<"", "">>
    /\ evaluated = {}
    /\ scores = NoScores
    /\ stress_saw = -1

NextResponse ==
    \E s \in DOMAIN requests :
        \/ (requests[s].pc = "idle" /\ \E body \in ServerBodies : Receive(s, body))
        \/ PredictStep(s)
        \/ RiskLevelStep(s)
        \/ RiskFactorsStep(s)
        \/ RecommendationsStep(s)

SpecResponse == InitResponse /\ [][NextResponse]_vars

(***************************************************************************)
(* Properties of _apply_medical_logic (SpecLogic).                         *)
(***************************************************************************)
Returned == pc = "logic_return"

\* adjusted_prob right after the blend, before any special case.
Blended == Blend(patient_data, model_probability)

\* C1: for every valid record and base probability in [0, 1],
\* _apply_medical_logic returns a value p with 0.01 <= p <= 0.99.
C1_AdjustedInRange ==
    Returned =>
        /\ Pct(1) <= adjusted_probability
        /\ adjusted_probability <= Pct(99)

\* The final clamp acted: the value before it was above 0.99.
C1_Witness ==
    /\ Returned
    /\ Overrides(patient_data, Blended) > Pct(99)
    /\ adjusted_probability = Pct(99)

\* C4 (as claimed): Female, age <= 35, never smoked, exercise >= 2 gives a
\* result <= 0.08, whatever the later overrides do.
C4_YoungWomanCapKept ==
    ( /\ Returned
      /\ patient_data.gender = "Female"
      /\ patient_data.age <= 35
      /\ patient_data.smoking = "Never"
      /\ patient_data.exercise_hours >= 20 )
    => adjusted_probability <= Pct(8)

\* C5: age <= 25, never smoked, no diabetes, no obesity, exercise >= 3 and
\* stress <= 5 gives a result <= 0.12; no later override raises it.
C5_YoungHealthyCap ==
    ( /\ Returned
      /\ patient_data.age <= 25
      /\ patient_data.smoking = "Never"
      /\ patient_data.diabetes = "No"
      /\ patient_data.obesity = "No"
      /\ patient_data.exercise_hours >= 30
      /\ patient_data.stress_level <= 5 )
    => adjusted_probability <= Pct(12)

\* The cap acted: the blend was above 0.12, and the record also counts two
\* major risk factors (family history, heavy alcohol).
C5_Witness ==
    /\ Returned
    /\ patient_data.age <= 25
    /\ patient_data.smoking = "Never"
    /\ patient_data.diabetes = "No"
    /\ patient_data.obesity = "No"
    /\ patient_data.exercise_hours >= 30
    /\ patient_data.stress_level <= 5
    /\ patient_data.family_history = "Yes"
    /\ patient_data.alcohol_intake = "Heavy"
    /\ Blended > Pct(12)
    /\ adjusted_probability <= Pct(12)

\* C6: age >= 60, current smoker and diabetic gives a result >= 0.65, which
\* is also at least every other floor that applies to the record (the 0.55
\* of the metabolic syndrome, the 0.60 of four major risk factors).
C6_HighRiskFloor ==
    ( /\ Returned
      /\ patient_data.age >= 60
      /\ patient_data.smoking = "Current"
      /\ patient_data.diabetes = "Yes" )
    => /\ adjusted_probability >= Pct(65)
       /\ ( ( /\ patient_data.obesity = "Yes"
               /\ patient_data.exercise_hours < 10 )
             => adjusted_probability >= Pct(55) )
       /\ ( Cardinality({ f \in {"obesity", "family_history"} :
                             patient_data[f] = "Yes" })
               + (IF patient_data.exercise_hours < 10 THEN 1 ELSE 0)
               + (IF patient_data.stress_level >= 8 THEN 1 ELSE 0)
               + (IF patient_data.alcohol_intake = "Heavy" THEN 1 ELSE 0) >= 2
             => adjusted_probability >= Pct(60) )

\* The floor acted on a record with seven major risk factors whose blend was
\* below 0.65.
C6_Witness ==
    /\ Returned
    /\ patient_data.age >= 60
    /\ patient_data.smoking = "Current"
    /\ patient_data.diabetes = "Yes"
    /\ patient_data.obesity = "Yes"
    /\ patient_data.family_history = "Yes"
    /\ patient_data.exercise_hours < 10
    /\ patient_data.stress_level >= 8
    /\ patient_data.alcohol_intake = "Heavy"
    /\ Blended < Pct(65)
    /\ adjusted_probability >= Pct(65)

\* C7: obesity, diabetes and exercise < 1 give a result >= 0.55; nothing
\* applied after that floor brings the result below it.
C7_MetabolicFloor ==
    ( /\ Returned
      /\ patient_data.obesity = "Yes"
      /\ patient_data.diabetes = "Yes"
      /\ patient_data.exercise_hours < 10 )
    => adjusted_probability >= Pct(55)

\* The floor acted: the blend was below 0.55 and no other floor reaches 0.55
\* (age < 45, so the multiple-factor floor is at most 0.45).
C7_Witness ==
    /\ Returned
    /\ patient_data.obesity = "Yes"
    /\ patient_data.diabetes = "Yes"
    /\ patient_data.exercise_hours < 10
    /\ patient_data.age < 45
    /\ patient_data.smoking = "Never"
    /\ Blended < Pct(55)
    /\ adjusted_probability = Pct(55)

\* C8: Male, age <= 35, current smoker and (diabetic or obese) gives a
\* result >= 0.25.
C8_YoungManFloor ==
    ( /\ Returned
      /\ patient_data.gender = "Male"
      /\ patient_data.age <= 35
      /\ patient_data.smoking = "Current"
      /\ (patient_data.diabetes = "Yes" \/ patient_data.obesity = "Yes") )
    => adjusted_probability >= Pct(25)

\* The floor acted: obese but not diabetic, blend below 0.25, no other floor.
C8_Witness ==
    /\ Returned
    /\ patient_data.gender = "Male"
    /\ patient_data.age <= 35
    /\ patient_data.smoking = "Current"
    /\ patient_data.diabetes = "No"
    /\ patient_data.obesity = "Yes"
    /\ Blended < Pct(25)
    /\ adjusted_probability = Pct(25)

\* The count n of C9, taken from the record.
C9_Count ==
    Cardinality({ f \in {"diabetes", "obesity", "family_history"} :
                    patient_data[f] = "Yes" })
    + (IF patient_data.smoking = "Current" THEN 1 ELSE 0)
    + (IF patient_data.exercise_hours < 10 THEN 1 ELSE 0)
    + (IF patient_data.stress_level >= 8 THEN 1 ELSE 0)
    + (IF patient_data.alcohol_intake = "Heavy" THEN 1 ELSE 0)

\* C9: with n the number of major risk factors of the record, the result is
\* >= 0.60 / 0.45 / 0.35 for n >= 4 and age >= 50 / 30..49 / < 30,
\* >= 0.50 / 0.40 for n = 3 and age >= 45 / 25..44, and >= 0.40 for n = 2
\* and age >= 55.
C9_MultipleFactorFloors ==
    Returned =>
        LET n == C9_Count
            age == patient_data.age
            p == adjusted_probability
        IN  /\ (n >= 4 /\ age >= 50) => p >= Pct(60)
            /\ (n >= 4 /\ age >= 30 /\ age < 50) => p >= Pct(45)
            /\ (n >= 4 /\ age < 30) => p >= Pct(35)
            /\ (n = 3 /\ age >= 45) => p >= Pct(50)
            /\ (n = 3 /\ age >= 25 /\ age < 45) => p >= Pct(40)
            /\ (n = 2 /\ age >= 55) => p >= Pct(40)

\* The n = 2 floor acted through heavy alcohol, on a record no other floor
\* applies to.
C9_Witness ==
    /\ Returned
    /\ C9_Count = 2
    /\ patient_data.alcohol_intake = "Heavy"
    /\ patient_data.family_history = "Yes"
    /\ patient_data.age >= 55
    /\ Blended < Pct(40)
    /\ adjusted_probability = Pct(40)

(***************************************************************************)
(* Properties of predict (Spec).                                           *)
(***************************************************************************)
\* C2: in the ensemble branch (any standard deviation >= 0) and in the
\* fallback branch (fixed 0.1 band), predict returns an interval [lo, hi]
\* with 0 <= lo <= adjustedProbability <= hi <= 1.
C2_IntervalAroundProbability ==
    pc \in {"predicted", "classified"} =>
        /\ 0 <= confidence_interval[1]
        /\ confidence_interval[1] <= adjusted_probability
        /\ adjusted_probability <= confidence_interval[2]
        /\ confidence_interval[2] <= Scale

\* The ensemble branch ran with a deviation that pushes both ends of
\* p -+ 1.96 * sigma out of [0, 1].
C2_Witness ==
    /\ pc = "predicted"
    /\ has_estimators
    /\ adjusted_probability - Band(std_dev) < 0
    /\ adjusted_probability + Band(std_dev) > Scale
    /\ confidence_interval = <<0, Scale>>

(***************************************************************************)
(* Properties of get_risk_level (SpecTier).                                *)
(***************************************************************************)
TierRank(label) ==
    CASE label = "Bajo Riesgo" -> 1
      [] label = "Riesgo Moderado" -> 2
      [] label = "Alto Riesgo" -> 3

\* C3: p >= 0.6 is High, 0.35 <= p < 0.6 is Moderate, p < 0.35 is Low (both
\* boundaries in the upper range), and the tier never decreases as p grows.
C3_TierThresholds ==
    pc = "tier_return" =>
        /\ \A i \in {1, 2} :
              /\ probability[i] >= Pct(60) <=> risk_level[i] = "Alto Riesgo"
              /\ (probability[i] >= Pct(35) /\ probability[i] < Pct(60))
                    <=> risk_level[i] = "Riesgo Moderado"
              /\ probability[i] < Pct(35) <=> risk_level[i] = "Bajo Riesgo"
        /\ probability[1] <= probability[2]
              => TierRank(risk_level[1]) <= TierRank(risk_level[2])

\* Both boundaries classified, each into its upper range.
C3_Witness ==
    /\ pc = "tier_return"
    /\ probability = <<Pct(35), Pct(60)>>
    /\ risk_level = <<"Riesgo Moderado", "Alto Riesgo">>

(***************************************************************************)
(* Properties of the score accumulation (SpecOrder).                       *)
(***************************************************************************)
\* risk_score as the stress rule reads it in _apply_medical_logic: after the
\* age, smoking, diabetes, obesity, family history and heavy alcohol groups.
RiskBeforeStress(pd) == Accumulate(SubSeq(RuleOrder, 1, 6), 1, pd, NoScores).risk

Evaluates(g) == g \notin evaluated /\ g \in evaluated'

\* What the step adds to risk_score and to protective_score.
AddedRisk == scores'.risk - scores.risk
AddedProt == scores'.prot - scores.prot

\* C30: the stress rule adds to risk_score only, nothing for stress_level
\* 1..5, 0.06 at 6 and a positive amount for 7..10; the stress management
\* rule adds to protective_score only, 0.12 up to level 2, 0.08 for 3..4,
\* 0.04 for 5 and 6 and nothing for 7..10; so level 6 alone feeds both
\* accumulators. The exercise rule always feeds exactly one accumulator:
\* protective_score from 1 hour on, risk_score below 1 hour.
C30_StressFeedsOneAccumulatorButSix ==
    [][ LET s == patient_data.stress_level
            h == patient_data.exercise_hours
        IN  /\ Evaluates("stress") =>
                   /\ AddedProt = 0
                   /\ s <= 5 => AddedRisk = 0
                   /\ s = 6 => AddedRisk = Pct(6)
                   /\ s >= 7 => AddedRisk > 0
            /\ Evaluates("stress_management") =>
                   /\ AddedRisk = 0
                   /\ s <= 2 => AddedProt = Pct(12)
                   /\ s \in {3, 4} => AddedProt = Pct(8)
                   /\ s \in {5, 6} => AddedProt = Pct(4)
                   /\ s >= 7 => AddedProt = 0
            /\ Evaluates("exercise") =>
                   IF h >= 10 THEN AddedRisk = 0 /\ AddedProt > 0
                              ELSE AddedProt = 0 /\ AddedRisk > 0 ]_vars

\* A record with stress_level 6 after exactly the stress rule and the stress
\* management rule: 0.06 in risk_score and 0.04 in protective_score.
C30_Witness ==
    /\ pc = "accumulate"
    /\ evaluated = {"stress", "stress_management"}
    /\ patient_data.stress_level = 6
    /\ scores = [risk |-> Pct(6), prot |-> Pct(4)]

(***************************************************************************)
(* Properties of get_recommendations (SpecRecs).                           *)
(***************************************************************************)
Recommended == pc = "recs_return"

\* The first line of the block get_recommendations opens with for a tier.
OpeningLine(label) ==
    CASE label = "Alto Riesgo" -> HighBlock[1]
      [] label = "Riesgo Moderado" -> ModerateBlock[1]
      [] label = "Bajo Riesgo" -> LowBlock[1]

\* C11: for every valid record and every probability p,
\* get_recommendations(p, get_risk_factors(record)) has at least 4 entries and
\* its first entry is the opening line of the tier get_risk_level gives p.
C11_OpeningLineOfTier ==
    Recommended =>
        /\ Len(recommendations) >= 4
        /\ recommendations[1] = OpeningLine(GetRiskLevel(adjusted_probability))

\* p exactly on the High threshold, for a record with factors of its own.
C11_Witness ==
    /\ Recommended
    /\ adjusted_probability = Pct(60)
    /\ recommendations[1] = HighBlock[1]
    /\ Len(recommendations) > 4

\* C19 as stated: whenever the probability passed to get_recommendations is
\* below 0.35 the list contains the exercise-praise line, and whenever it is
\* below 0.2 the list contains the congratulatory closing lines.
C19_PraiseWheneverLow ==
    Recommended =>
        /\ adjusted_probability < Pct(35) => PraiseLine \in Range(recommendations)
        /\ adjusted_probability < Pct(20) =>
               Range(ClosingLines) \subseteq Range(recommendations)

\* C19, amended: the list contains the exercise-praise line exactly when the
\* probability is below 0.35 and the factor map has no "Sedentarismo" key, and
\* it ends with the two congratulatory closing lines exactly when the
\* probability is below 0.2.
C19_PraiseUnlessSedentary ==
    Recommended =>
        /\ PraiseLine \in Range(recommendations)
               <=> /\ adjusted_probability < Pct(35)
                   /\ "Sedentarismo" \notin Keys(risk_factors)
        /\ adjusted_probability < Pct(20) =>
               SubSeq(recommendations, Len(recommendations) - 1,
                      Len(recommendations)) = ClosingLines
        /\ adjusted_probability >= Pct(20) =>
               Range(ClosingLines) \cap Range(recommendations) = {}

\* A sedentary record with a probability below 0.2: closing lines, no praise.
C19_Witness ==
    /\ Recommended
    /\ adjusted_probability < Pct(20)
    /\ "Sedentarismo" \in Keys(risk_factors)
    /\ PraiseLine \notin Range(recommendations)
    /\ Range(ClosingLines) \subseteq Range(recommendations)

\* The place in the block order of the appending statement a line belongs to:
\* tier, smoking, sedentary or praise, obesity, stress, diabetes, alcohol,
\* closing.
RankOfLine(line) ==
    CASE line \in Range(HighBlock) \cup Range(ModerateBlock) \cup Range(LowBlock) -> 1
      [] line \in Range(QuitSmokingLines) \cup Range(FormerSmokerLines) -> 2
      [] line \in Range(SedentaryLines) \cup {PraiseLine} -> 3
      [] line \in Range(ObesityLines) -> 4
      [] line \in Range(StressUrgentLines) \cup Range(RelaxationLines) -> 5
      [] line \in Range(DiabetesLines) -> 6
      [] line \in Range(AlcoholLines) -> 7
      [] line \in Range(ClosingLines) -> 8

AllLines ==
    UNION { Range(b) : b \in {HighBlock, ModerateBlock, LowBlock, QuitSmokingLines,
                              FormerSmokerLines, SedentaryLines, <<PraiseLine>>,
                              ObesityLines, StressUrgentLines, RelaxationLines,
                              DiabetesLines, AlcoholLines, ClosingLines} }

BlockRanks == [line \in AllLines |-> RankOfLine(line)]

BlockRank(line) == BlockRanks[line]

LinesOfRank(k) ==
    Cardinality({ i \in 1..Len(recommendations) : BlockRank(recommendations[i]) = k })

\* C20: the list is built append-only in the block order tier, smoking,
\* sedentary or praise, obesity, stress, diabetes, alcohol, closing: every step
\* keeps what is there and appends lines of the next block only, the tier
\* block has 4 lines and is first, every conditional block has at most 3 (1 to
\* 3 when present), and lines of two blocks always stand in block order.
C20_AppendOnlyBlockOrder ==
    /\ [](/\ \A i \in 1..(Len(recommendations) - 1) :
                BlockRank(recommendations[i]) <= BlockRank(recommendations[i + 1])
          /\ \A i \in 1..Len(recommendations) : BlockRank(recommendations[i]) <= block
          /\ block >= 1 => LinesOfRank(1) = 4
          /\ \A k \in Blocks \ {1} : LinesOfRank(k) \in 0..3)
    /\ [][/\ Len(recommendations') >= Len(recommendations)
          /\ SubSeq(recommendations', 1, Len(recommendations)) = recommendations
          /\ \A i \in (Len(recommendations) + 1)..Len(recommendations') :
                 BlockRank(recommendations'[i]) = block']_vars

\* A finished list in which the tier block and all seven conditional blocks
\* are present.
C20_Witness ==
    /\ Recommended
    /\ \A k \in Blocks : LinesOfRank(k) >= 1
    /\ LinesOfRank(5) = 3

\* C28: for a record with a stress entry (stress_level >= 6) the finished list
\* holds the three urgent stress lines exactly when stress_level = 8 and the
\* single relaxation line, and no urgent line, for the levels 6, 7, 9 and 10;
\* so the levels 9 and 10 get fewer stress lines than level 8.
C28_UrgentStressBlockOnlyAtEight ==
    (pc = "recs_return" /\ patient_data.stress_level >= 6) =>
        /\ "Estres" \in Keys(risk_factors)
        /\ IF patient_data.stress_level = 8
           THEN /\ Range(StressUrgentLines) \subseteq Range(recommendations)
                /\ Range(RelaxationLines) \cap Range(recommendations) = {}
                /\ LinesOfRank(5) = 3
           ELSE /\ Range(RelaxationLines) \subseteq Range(recommendations)
                /\ Range(StressUrgentLines) \cap Range(recommendations) = {}
                /\ LinesOfRank(5) = 1

\* A finished list for stress level 10 with the relaxation line as its only
\* stress line.
C28_Witness ==
    /\ pc = "recs_return"
    /\ patient_data.stress_level = 10
    /\ Range(RelaxationLines) \subseteq Range(recommendations)
    /\ LinesOfRank(5) = 1

(***************************************************************************)
(* Properties of preprocess_data (SpecEncode).                             *)
(***************************************************************************)
\* The categorical fields and the values models.py accepts for them.
Categorical ==
    ("gender" :> Genders) @@ ("smoking" :> SmokingValues)
        @@ ("alcohol_intake" :> AlcoholValues) @@ ("diabetes" :> YesNo)
        @@ ("family_history" :> YesNo) @@ ("obesity" :> YesNo)

HasUnrecognized(pd) == \E f \in DOMAIN Categorical : pd[f] \notin Categorical[f]

\* C15: a record with an unrecognized value in a categorical field that
\* reaches preprocess_data makes it fail with an error; no such record is
\* turned into a row of numeric codes for the classifier.
C15_UnrecognizedValueFails ==
    (pc = "preprocess_return" /\ HasUnrecognized(patient_data))
        => IsRaised(processed_data)

(***************************************************************************)
(* Properties of the pipeline run by two classifiers (SpecTwo).            *)
(***************************************************************************)
Called(r, method) == method \in Range(r.called)

\* C12: two runs of the pipeline on the same record with two different
\* classifiers yield identical factor maps: same keys, same texts, same order.
C12_FactorsOfRecordAlone ==
    \A i, j \in DOMAIN requests :
        (/\ Called(requests[i], "get_risk_factors")
         /\ Called(requests[j], "get_risk_factors")
         /\ requests[i].patient_data = requests[j].patient_data)
            => requests[i].risk_factors = requests[j].risk_factors

\* Both runs answered, with different tiers and the same non-empty factors.
C12_Witness ==
    /\ pc = "two_runs"
    /\ predictor[1].model # predictor[2].model
    /\ \A i \in DOMAIN requests : requests[i].response.status = 200
    /\ requests[1].risk_level = "Bajo Riesgo"
    /\ requests[2].risk_level = "Alto Riesgo"
    /\ requests[1].risk_factors = requests[2].risk_factors
    /\ Len(requests[1].risk_factors) >= 3

(***************************************************************************)
(* Properties of request validation (SpecValidate).                        *)
(***************************************************************************)
\* A body every field of which is present and valid.
ValidBody(body) ==
    /\ DOMAIN body = Fields
    /\ body.age \in 18..100
    /\ body.exercise_hours >= 0 /\ body.exercise_hours <= 240
    /\ body.stress_level \in 1..10
    /\ body.gender \in {"Male", "Female"}
    /\ body.smoking \in {"Never", "Former", "Current"}
    /\ body.alcohol_intake \in {"None", "Light", "Moderate", "Heavy"}
    /\ body.diabetes \in {"Yes", "No"}
    /\ body.family_history \in {"Yes", "No"}
    /\ body.obesity \in {"Yes", "No"}

\* C14: a /predict request reaches predictor.predict only if every field of
\* its body is valid; any other body is answered 422 and no predictor method
\* is invoked for it; a valid body, age 18 and 100 included, is not rejected.
C14_OnlyValidBodiesReachPredict ==
    \A s \in DOMAIN requests :
        requests[s].pc # "idle" =>
            IF ValidBody(requests[s].body)
            THEN requests[s].response.status # 422
            ELSE /\ requests[s].response.status = 422
                 /\ requests[s].called = <<>>
                 /\ requests[s].pc = "done"

\* A body on the lowest age and the highest exercise and stress has reached
\* predict.
C14_Witness ==
    /\ ValidBody(requests[1].body)
    /\ requests[1].body.age = 18
    /\ requests[1].body.exercise_hours = 240
    /\ requests[1].body.stress_level = 10
    /\ Called(requests[1], "predict")

(***************************************************************************)
(* Properties of the served application (SpecServer).                      *)
(***************************************************************************)
Done(s) == requests[s].pc = "done"

\* C13: with the artifacts fixed, two requests with identical records get
\* identical responses (the same result or the same error), whatever was
\* handled before, between or during them.
C13_SameRecordSameResponse ==
    \A s, t \in DOMAIN requests :
        (Done(s) /\ Done(t) /\ requests[s].body = requests[t].body)
            => requests[s].response = requests[t].response

\* The same valid record first and third, another record handled in between,
\* one after the other.
C13_Witness ==
    /\ pc = "serving"
    /\ Done(1) /\ Done(2) /\ Done(3)
    /\ requests[1].body = requests[3].body
    /\ requests[2].body # requests[1].body
    /\ requests[1].response.status = 200
    /\ requests[2].response.status = 200
    /\ 1 \in requests[2].before
    /\ 2 \in requests[3].before

(***************************************************************************)
(* Properties of the response body (SpecResponse).                         *)
(***************************************************************************)
\* C27: in a 200 response the label is the tier of the reported
\* risk_probability (3 decimals): the probability is >= 0.6 iff the label is
\* Alto Riesgo and in [0.35, 0.6) iff it is Riesgo Moderado; and the reported
\* interval has lo <= risk_probability <= hi.
C27_LabelIsTierOfReported ==
    \A s \in DOMAIN requests :
        (Done(s) /\ requests[s].response.status = 200) =>
            LET r == requests[s].response
            IN  /\ r.risk_probability >= 600 <=> r.risk_prediction = "Alto Riesgo"
                /\ (r.risk_probability >= 350 /\ r.risk_probability < 600)
                       <=> r.risk_prediction = "Riesgo Moderado"
                /\ r.confidence_interval[1] <= r.risk_probability
                /\ r.risk_probability <= r.confidence_interval[2]

\* predict raises for the record: preprocess_data does, or the classifier.
PredictRaises(pr, pd) ==
    LET processed == PreprocessData(pd, pr.encoding_info, pr.scaler)
    IN  IsRaised(processed) \/ IsRaised(PredictProba(pr.model, processed.array))

\* C16: a request whose predict call raises is answered 500 with the detail
\* only and none of the result fields; the application goes on being served,
\* and a request that arrives after such an answer gets the response it would
\* get on its own.
C16_ExceptionGives500 ==
    \A s \in DOMAIN requests :
        /\ (/\ Called(requests[s], "predict")
            /\ PredictRaises(predictor, requests[s].patient_data))
               => /\ Done(s)
                  /\ requests[s].response.status = 500
                  /\ DOMAIN requests[s].response = {"status", "detail"}
                  /\ pc = "serving"
        /\ (/\ Done(s)
            /\ ValidationErrors(requests[s].body) = {}
            /\ \E t \in requests[s].before : requests[t].response.status = 500)
               => requests[s].response = RunAlone(predictor, requests[s].body)

\* A request answered 200 that arrived after another was answered 500.
C16_Witness ==
    /\ pc = "serving"
    /\ \E s, t \in DOMAIN requests :
        /\ Done(s) /\ Done(t)
        /\ requests[t].response.status = 500
        /\ t \in requests[s].before
        /\ requests[s].response.status = 200

\* C17: the application is served, handles a request or has answered /health
\* only with all three artifacts loaded, and /health reports models_loaded =
\* true; after a failed load it never serves.
C17_ServingMeansLoaded ==
    /\ (\/ pc = "serving"
        \/ health # NoHealth
        \/ \E s \in DOMAIN requests : requests[s].pc # "idle")
           => /\ pc = "serving"
              /\ predictor.model # None
              /\ predictor.scaler # None
              /\ predictor.encoding_info # None
    /\ health # NoHealth => health.models_loaded

\* /health was answered and a request was answered 200.
C17_Witness ==
    /\ pc = "serving"
    /\ health.status = "healthy"
    /\ health.models_loaded
    /\ \E s \in DOMAIN requests : requests[s].response.status = 200

\* C18: no step of a request changes the predictor's model, scaler or
\* encoding_info, none changes the PatientData object it was called with, and
\* every response is the one the request would get if it ran alone.
C18_NoSharedMutation ==
    [][/\ pc = "serving" => predictor' = predictor
       /\ \A s \in DOMAIN requests :
            /\ requests[s].pc # "idle" =>
                   /\ requests'[s].body = requests[s].body
                   /\ requests[s].pc # "done" =>
                          /\ requests[s].patient_data = requests[s].body
                          /\ requests'[s].patient_data = requests[s].body
            /\ Done(s) => requests'[s] = requests[s]
            /\ (/\ ~Done(s)
                /\ requests'[s].pc = "done"
                /\ ValidationErrors(requests'[s].body) = {})
                   => requests'[s].response = RunAlone(predictor', requests'[s].body)]_vars

\* Two requests with different records answered 200, neither of which was
\* answered when the other arrived.
C18_Witness ==
    /\ pc = "serving"
    /\ Done(1) /\ Done(2)
    /\ requests[1].body # requests[2].body
    /\ requests[1].response.status = 200
    /\ requests[2].response.status = 200
    /\ 1 \notin requests[2].before

(***************************************************************************)
(* Properties of the row preprocess_data returns (SpecEncode).             *)
(***************************************************************************)
\* The encodings key of a categorical record field.
EncodingKey ==
    ("gender" :> "Gender") @@ ("smoking" :> "Smoking") @@ ("diabetes" :> "Diabetes")
        @@ ("family_history" :> "Family History") @@ ("obesity" :> "Obesity")

\* The number a record field enters the row as, before scaling.
RawValue(pd, encodings, field) ==
    IF field \in DOMAIN EncodingKey THEN encodings[EncodingKey[field]][pd[field]]
    ELSE IF field = "alcohol_intake" THEN AlcoholCode(pd[field])
    ELSE pd[field]

\* C21: the row preprocess_data returns has one entry per feature of the
\* catalog; the entry of a feature outside scaler_features is the encoded value
\* of the record field the feature name maps to; the entry of the k-th scaler
\* feature is the scaler's transform of that value with the k-th mean and scale.
C21_RowFollowsCatalog ==
    (pc = "preprocess_return" /\ ~IsRaised(processed_data)) =>
        LET catalog == predictor.encoding_info
            row == processed_data.array
        IN  /\ Len(row) = Len(catalog.features)
            /\ \A i \in 1..Len(catalog.features) :
                   LET feature == catalog.features[i]
                       raw == RawValue(patient_data, catalog.encodings,
                                       FeatureMapping[feature])
                       ks == { k \in 1..Len(catalog.scaler_features) :
                                 catalog.scaler_features[k] = feature }
                   IN  IF ks = {} THEN row[i] = raw
                       ELSE \A k \in ks :
                              row[i] = ((raw - predictor.scaler.mean[k]) * 100)
                                           \div predictor.scaler.scale[k]

\* A row returned for the catalog whose columns and scaler features are in
\* another order: its first entry is the scaled stress level, its second the
\* obesity code.
C21_Witness ==
    /\ pc = "preprocess_return"
    /\ ~IsRaised(processed_data)
    /\ predictor.encoding_info = ReorderedCatalog
    /\ patient_data.obesity = "Yes"
    /\ patient_data.age = 60
    /\ Len(processed_data.array) = 9
    /\ processed_data.array[1] = -300
    /\ processed_data.array[2] = 1
    /\ processed_data.array[9] = 150

(***************************************************************************)
(* Properties of the blend (SpecBlend).                                    *)
(***************************************************************************)
\* clamp(base + riskScore - protectiveScore, 0.02, 0.98)
ClampedLogic ==
    LET raw == model_probability + scores.risk - scores.prot
    IN  IF raw < Pct(2) THEN Pct(2) ELSE IF raw > Pct(98) THEN Pct(98) ELSE raw

\* C22: before any special case the blended value is
\* modelWeight * base + logicWeight * clamp(base + riskScore - protectiveScore,
\* 0.02, 0.98), with the weights 0.45/0.55 when riskScore + protectiveScore >
\* 0.4, 0.55/0.45 when it is > 0.2 and <= 0.4, and 0.65/0.35 otherwise; it lies
\* between the base and the clamped logic probability, and in [0, 1].
C22_BlendOfBaseAndLogic ==
    pc = "blended" =>
        LET total == scores.risk + scores.prot
            base == model_probability
        IN  /\ total > Pct(40) =>
                   100 * adjusted_probability = 45 * base + 55 * ClampedLogic
            /\ (total > Pct(20) /\ total <= Pct(40)) =>
                   100 * adjusted_probability = 55 * base + 45 * ClampedLogic
            /\ total <= Pct(20) =>
                   100 * adjusted_probability = 65 * base + 35 * ClampedLogic
            /\ Min(base, ClampedLogic) <= adjusted_probability
            /\ adjusted_probability <= Max(base, ClampedLogic)
            /\ 0 <= adjusted_probability /\ adjusted_probability <= Scale

\* A blend in the middle band of the weights, of a base and a logic
\* probability that differ and was not clamped.
C22_Witness ==
    /\ pc = "blended"
    /\ scores.risk + scores.prot > Pct(20)
    /\ scores.risk + scores.prot <= Pct(40)
    /\ ClampedLogic # model_probability
    /\ ClampedLogic > Pct(2) /\ ClampedLogic < Pct(98)
    /\ adjusted_probability > model_probability

(***************************************************************************)
(* Properties of the factor map (SpecRecs).                                *)
(***************************************************************************)
FactorsReturned == pc # "factors_call"

SynergyKeys == {"COMBINACION CRITICA", "SINDROME METABOLICO", "CIRCULO VICIOSO"}

PlainKeys ==
    {"Edad", "Tabaquismo", "Diabetes", "Obesidad", "Historia Familiar",
     "Sedentarismo", "Actividad Baja", "Estres", "Alcohol"}

\* C23: the map holds the critical-combination key iff smoking is Current and
\* diabetes Yes, the metabolic-syndrome key iff obesity and diabetes are Yes
\* and exercise_hours < 1, the vicious-circle key iff stress_level >= 8 and
\* exercise_hours < 1; these are the records for which _apply_medical_logic
\* multiplies by 1.15, raises to 0.55 and multiplies by 1.10; no key occurs
\* twice and the synergy keys are none of the other keys.
C23_SynergyKeysMatchOverrides ==
    FactorsReturned =>
        LET pd == patient_data
            keys == Keys(risk_factors)
        IN  /\ "COMBINACION CRITICA" \in keys
                   <=> (pd.smoking = "Current" /\ pd.diabetes = "Yes")
            /\ "SINDROME METABOLICO" \in keys
                   <=> (pd.obesity = "Yes" /\ pd.diabetes = "Yes"
                        /\ pd.exercise_hours < 10)
            /\ "CIRCULO VICIOSO" \in keys
                   <=> (pd.stress_level >= 8 /\ pd.exercise_hours < 10)
            /\ "COMBINACION CRITICA" \in keys
                   <=> SmokingDiabetesSynergy(pd, Pct(40)) = Pct(46)
            /\ "SINDROME METABOLICO" \in keys
                   <=> MetabolicSyndrome(pd, Pct(40)) = Pct(55)
            /\ "CIRCULO VICIOSO" \in keys
                   <=> StressSedentarySynergy(pd, Pct(40)) = Pct(44)
            /\ \A i, j \in 1..Len(risk_factors) :
                   i # j => risk_factors[i][1] # risk_factors[j][1]
            /\ keys \subseteq SynergyKeys \cup PlainKeys
            /\ SynergyKeys \cap PlainKeys = {}
            /\ Cardinality(SynergyKeys) = 3

\* A map of at least eight entries whose last three are the synergy entries.
C23_Witness ==
    /\ FactorsReturned
    /\ SynergyKeys \subseteq Keys(risk_factors)
    /\ Len(risk_factors) >= 8
    /\ \A i \in 1..3 :
           risk_factors[Len(risk_factors) - 3 + i][1] \in SynergyKeys

(***************************************************************************)
(* Properties of the exercise and age entries (SpecFactors).               *)
(***************************************************************************)
\* The band of get_risk_factors an exercise_hours value lies in: 1 below 0.5,
\* 2 from 0.5 to below 1.5, 3 from 1.5 to below 2.5, 0 from 2.5 on.
ExerciseBand(h) ==
    IF h < 5 THEN 1 ELSE IF h < 15 THEN 2 ELSE IF h < 25 THEN 3 ELSE 0

\* The entries of a map that the exercise statement wrote.
ExerciseEntries(factors) ==
    { i \in 1..Len(factors) : factors[i][1] \in {"Sedentarismo", "Actividad Baja"} }

\* The record with another value of exercise_hours.
WithExercise(h) == [patient_data EXCEPT !.exercise_hours = h]

OtherBandHours ==
    { h \in {0, 4, 5, 14, 15, 24} :
        ExerciseBand(h) # ExerciseBand(patient_data.exercise_hours) }

ExtremeSedentaryText ==
    "Sedentarismo extremo - Solo {exercise_hours}h/semana (URGENTE cambiar!)"

\* C24 as stated: at most one exercise entry, none from 2.5 hours on, and the
\* key of the entry of one band is not the key of the entry of another band.
C24_BandsUnderDistinctKeys ==
    (FactorsReturned /\ ExerciseBand(patient_data.exercise_hours) # 0) =>
        /\ Cardinality(ExerciseEntries(risk_factors)) = 1
        /\ \A i \in ExerciseEntries(risk_factors) :
             \A h \in OtherBandHours :
               LET other == GetRiskFactors(WithExercise(h))
               IN  \A j \in ExerciseEntries(other) :
                      other[j][1] # risk_factors[i][1]

\* C24 amended: at most one exercise entry, chosen by the first matching
\* band; below 0.5 and from 0.5 to below 1.5 the key is Sedentarismo, with a
\* text of its own for each band; from 1.5 to below 2.5 the key is Actividad
\* Baja; from 2.5 on there is no exercise entry; the texts of two bands differ.
C24_BandsUnderTwoKeys ==
    FactorsReturned =>
        LET band == ExerciseBand(patient_data.exercise_hours)
            entries == ExerciseEntries(risk_factors)
        IN  /\ band = 0 => entries = {}
            /\ band # 0 => Cardinality(entries) = 1
            /\ \A i \in entries :
                 /\ risk_factors[i][1] =
                        (IF band \in {1, 2} THEN "Sedentarismo" ELSE "Actividad Baja")
                 /\ risk_factors[i][2][2] = patient_data.exercise_hours
                 /\ band = 1 <=> risk_factors[i][2][1] = ExtremeSedentaryText
                 /\ \A h \in OtherBandHours :
                      LET other == GetRiskFactors(WithExercise(h))
                      IN  \A j \in ExerciseEntries(other) :
                             other[j][2][1] # risk_factors[i][2][1]

\* The factors of a record with 0.5 hours: the Sedentarismo entry of the
\* second band.
C24_Witness ==
    /\ FactorsReturned
    /\ patient_data.exercise_hours = 5
    /\ "Sedentarismo" \in Keys(risk_factors)
    /\ Lookup(risk_factors, "Sedentarismo")[1] # ExtremeSedentaryText

\* The age bands of the texts: lower bound (inclusive) and template, highest
\* band first.
MaleAgeBands ==
    << <<60, "{age} anos - Hombre (riesgo alto por edad avanzada)">>,
       <<45, "{age} anos - Hombre (riesgo moderado por edad)">>,
       <<35, "{age} anos - Hombre (inicio de riesgo por edad)">> >>

FemaleAgeBands ==
    << <<65, "{age} anos - Mujer (riesgo alto post-menopausico)">>,
       <<55, "{age} anos - Mujer (riesgo moderado post-menopausico)">>,
       <<50, "{age} anos - Mujer (transicion menopausica)">> >>

\* C25: the map has an age entry iff the patient is a man of 35 or more or a
\* woman of 50 or more; its text is the one of the highest band whose lower
\* bound the age reaches (men 60, 45, 35; women 65, 55, 50) and carries the
\* age; men of 18..34 and women of 18..49 have no age entry.
C25_AgeEntryByGenderBand ==
    FactorsReturned =>
        LET pd == patient_data
            bands == IF pd.gender = "Male" THEN MaleAgeBands ELSE FemaleAgeBands
            reached == { b \in 1..3 : pd.age >= bands[b][1] }
        IN  /\ "Edad" \in Keys(risk_factors)
                   <=> \/ (pd.gender = "Male" /\ pd.age >= 35)
                       \/ (pd.gender = "Female" /\ pd.age >= 50)
            /\ "Edad" \in Keys(risk_factors) <=> reached # {}
            /\ reached # {} =>
                   LET highest == CHOOSE b \in reached : \A c \in reached : b <= c
                   IN  Lookup(risk_factors, "Edad") = <<bands[highest][2], pd.age>>
            /\ Cardinality({ i \in 1..Len(risk_factors) :
                               risk_factors[i][1] = "Edad" }) <= 1

\* The factors of a woman of exactly 50: the entry of the lowest female band,
\* first in the map.
C25_Witness ==
    /\ FactorsReturned
    /\ patient_data.gender = "Female"
    /\ patient_data.age = 50
    /\ Len(risk_factors) >= 1
    /\ risk_factors[1] = <<"Edad", <<"{age} anos - Mujer (transicion menopausica)", 50>> >>

(***************************************************************************)
(* Properties of two calls of _apply_medical_logic (SpecMonotone).         *)
(***************************************************************************)
BothReturned == \A i \in 1..2 : requests[i].pc = "logic_return"

\* C26: for a fixed record _apply_medical_logic is monotone non-decreasing in
\* the base probability: of two calls, the one with the smaller base does not
\* return the larger value.
C26_MonotoneInBase ==
    (pc = "two_calls" /\ BothReturned) =>
        \A i, j \in 1..2 :
            requests[i].base_probability <= requests[j].base_probability
                => requests[i].adjusted_prob <= requests[j].adjusted_prob

\* Two calls that return different values, both strictly inside the final
\* clamp, for a record with a special case that multiplies.
C26_Witness ==
    /\ pc = "two_calls"
    /\ BothReturned
    /\ patient_data.smoking = "Current" /\ patient_data.diabetes = "Yes"
    /\ requests[1].adjusted_prob < requests[2].adjusted_prob
    /\ requests[1].adjusted_prob > Pct(1)
    /\ requests[2].adjusted_prob < Pct(99)

(***************************************************************************)
(* Properties of the binary label (Spec).                                  *)
(***************************************************************************)
\* C29: the label predict returns is 1 iff the adjusted probability is
\* >= 0.5, whatever the classifier's own probability is; so a result of the
\* High tier has label 1 and one of the Low tier has label 0.
C29_LabelFollowsAdjusted ==
    /\ pc \in {"predicted", "classified"} =>
           (final_prediction = 1 <=> adjusted_probability >= Pct(50))
    /\ pc = "classified" =>
           /\ final_prediction \in {0, 1}
           /\ risk_level[1] = "Alto Riesgo" => final_prediction = 1
           /\ risk_level[1] = "Bajo Riesgo" => final_prediction = 0

\* A result of the High tier with label 1 for a record the classifier gives
\* probability 0.
C29_Witness ==
    /\ pc = "classified"
    /\ model_probability = 0
    /\ adjusted_probability >= Pct(60)
    /\ risk_level[1] = "Alto Riesgo"
    /\ final_prediction = 1

====
